---- MODULE Spec2Model ----
(***************************************************************************)
(* natron: the session manager (internal/session) and the claude executor  *)
(* (internal/executor/claude) as a state machine.                          *)
(*                                                                         *)
(* A manager thread runs one Manager call at a time (Send, Reset,          *)
(* Shutdown).  getOrCreate, remove and Shutdown run under m.mu and are one *)
(* step each; Executor.Send is run step by step, because the reader        *)
(* goroutine and other threads interleave with it.  Each executor has its  *)
(* child process, its reader goroutine (readLoop) and its response slot;   *)
(* each Manager.Send call owns the channel pair (ch, out) that its          *)
(* Executor.Send makes, numbered by the call.                              *)
(***************************************************************************)
EXTENDS Integers, Sequences, FiniteSets, TLC

\* ------------------------------------------------------------------ bounds
MaxCalls == 2      \* Manager operations begun in one run: calls and expiries
MaxSess == 3       \* executors the factory hands out in one run
MaxText == 1       \* assistant lines the child writes before a result line
MaxStops == 2      \* direct Executor.Stop calls made in one run
MaxTimeout == 1    \* the largest configured inactivity timeout, in clock ticks
ChanCap == 64      \* make(chan executor.Event, 64)

Threads == {"a", "b"}
Stoppers == {"p", "q"}
Chats == {1, 2}
TurnChats == {1}
Execs == 1..MaxSess
Calls == 1..MaxCalls
None == 0
Free == "free"

VARIABLES
    \* Manager (part_002:29-35) and Session (part_002:140-145)
    sessions,     \* m.sessions: chat -> session (None: no entry)
    sessChat,     \* the chat the factory made the executor for (Session.chatID)
    sessMu,       \* Session.mu: the thread holding it, or Free
    \* Executor (part_004:26-41); session s owns executor s
    alive,        \* e.alive
    stdinClosed,  \* e.stdin has been closed by Stop
    joined,       \* cmd.Wait has returned in Stop
    stopCalls,    \* how many times the manager has called Stop on the executor
    ectx,         \* the call whose ctx Start derived procCtx from
    respCh,       \* e.respCh: the installed channel (None: nil)
    \* child process and reader goroutine of each executor
    child,        \* "none", "running", "exited"
    stdinQ,       \* user messages written to stdin, not yet answered
    texts,        \* assistant lines written for the head message
    rpc,          \* position of readLoop ("off": never started)
    revt,         \* the event parseLine returned
    rdone,        \* what follows the dispatch: "no", "done", "eof"
    rch,          \* the channel dispatch read from the slot
    \* channel pair of each call: ch (installed), out (returned)
    chExec,       \* the executor whose Send made the pair
    chState,      \* ch: "none", "open", "closed"
    chBuf,        \* events buffered in ch
    outState,     \* out: "none", "open", "closed"
    outBuf,       \* events sent on out, in order
    cancelled,    \* the call's ctx is done
    panicked,     \* "no", or the runtime panic that ended the process
    \* manager threads; the locals are cleared when the call returns
    pc, chat, sess, cid, attempt, res,
    ncalls, nexecs,
    \* history
    made,         \* per thread: factory invocations of the call, by attempt
    dead,         \* per thread: the dead session acquire found under the lock
    victim,       \* per thread: the session its recovery's remove deleted
    replDead,     \* per thread: the replacement was not alive when locked
    hist,         \* per chat: "clean"; "failed" once a Start returned an error;
                  \* "broken" once a Reset, an expiry, a Shutdown or the death
                  \* of an executor of the chat has happened
    fresh,        \* per chat: factory invocations while the chat is not broken
    \* the manager variant with inactivity timers (part_001)
    timers,       \* the manager arms a timer per session
    timeout,      \* cfg.Session.InactivityTimeout, in clock ticks
    tarmed,       \* Session.timer is pending
    tage,         \* ticks since Session.timer was armed, up to timeout
    pend,         \* per chat: expire callbacks started and not yet run
    cbOf,         \* per session: those of them that its timer started
    since,        \* per chat: ticks since the last touch, up to timeout
    \* direct callers of Executor.Stop
    spc,          \* position in Stop
    stgt,         \* the executor Stop was called on
    sawAlive,     \* what the call read from e.alive
    nstops,
    stopDone,     \* per executor: a Stop call on it has returned
    stopEff,      \* per executor: a Stop call that read alive = true has returned
    \* workspace resolution (part_002:179-206), one call on its own
    wsCfg,        \* m.cfg.Workspaces: BasePath, ChatMap, Default
    wsArg,        \* the arguments: chatID, username, title
    wsDone,       \* resolveWorkDir has returned
    wsOut,        \* the path it returned
    \* the reader's line parser (part_004:215-359), on a stream of its own
    sessionID,    \* e.sessionID
    scanning,     \* readLoop is in its scan loop
    pline,        \* the line the last Scan returned
    pevt,         \* the event parseLine returned for it (NoEvent: nil)
    pdone,        \* the end-of-turn flag parseLine returned for it
    nlines,       \* lines scanned
    \* the markdown escape transform (formatV2), one call on its own
    fmtIn,        \* the text passed to formatV2
    fmtDone,      \* formatV2 has returned
    fmtOut,       \* the text it returned
    \* the response assembler (Bot.streamResponse) and the platform
    events,       \* the events the channel delivers, in order, then closed
    epos,         \* events received so far
    apc,          \* "idle", "loop" (in the select loop) or "returned"
    buf,          \* buf
    lastEdit,     \* lastEdit
    msgID,        \* msgID (0: none)
    posts,        \* the platform's messages: text and parse mode, by id
    call,         \* the last platform call made
    nplat,        \* platform calls made
    nfail,        \* platform calls that failed
    nticks,       \* ticks of the edit ticker received
    closedIDs     \* ids of the messages closed out by a size split

mgrVars == <<sessions, sessChat, sessMu>>
execVars == <<alive, stdinClosed, joined, stopCalls, ectx, respCh>>
procVars == <<child, stdinQ, texts, rpc, revt, rdone, rch>>
chanVars == <<chExec, chState, chBuf, outState, outBuf, cancelled, panicked>>
thrVars == <<pc, chat, sess, cid, attempt, res, ncalls, nexecs>>
callHist == <<made, dead, victim, replDead>>
chatHist == <<hist, fresh>>
stopVars == <<spc, stgt, sawAlive, nstops, stopDone, stopEff>>
timerVars == <<timers, timeout, tarmed, tage, pend, cbOf, since>>
wsVars == <<wsCfg, wsArg, wsDone, wsOut>>
parseVars == <<sessionID, scanning, pline, pevt, pdone, nlines>>
fmtVars == <<fmtIn, fmtDone, fmtOut>>
asmVars == <<events, epos, apc, buf, lastEdit, msgID, posts, call, nplat, nfail, nticks,
             closedIDs>>
unitVars == <<wsVars, parseVars, fmtVars, asmVars>>
vars == <<mgrVars, execVars, procVars, chanVars, thrVars, callHist, chatHist, stopVars,
          timerVars, unitVars>>

NoneMade == <<0, 0>>

InitBase ==
    /\ sessions = [c \in Chats |-> None]
    /\ sessChat = [e \in Execs |-> None]
    /\ sessMu = [e \in Execs |-> Free]
    /\ alive = [e \in Execs |-> FALSE]
    /\ stdinClosed = [e \in Execs |-> FALSE]
    /\ joined = [e \in Execs |-> FALSE]
    /\ stopCalls = [e \in Execs |-> 0]
    /\ ectx = [e \in Execs |-> None]
    /\ respCh = [e \in Execs |-> None]
    /\ child = [e \in Execs |-> "none"]
    /\ stdinQ = [e \in Execs |-> <<>>]
    /\ texts = [e \in Execs |-> 0]
    /\ rpc = [e \in Execs |-> "off"]
    /\ revt = [e \in Execs |-> <<"none", None>>]
    /\ rdone = [e \in Execs |-> "no"]
    /\ rch = [e \in Execs |-> None]
    /\ chExec = [k \in Calls |-> None]
    /\ chState = [k \in Calls |-> "none"]
    /\ chBuf = [k \in Calls |-> <<>>]
    /\ outState = [k \in Calls |-> "none"]
    /\ outBuf = [k \in Calls |-> <<>>]
    /\ cancelled = [k \in Calls |-> FALSE]
    /\ panicked = "no"
    /\ pc = [t \in Threads |-> "idle"]
    /\ chat = [t \in Threads |-> None]
    /\ sess = [t \in Threads |-> None]
    /\ cid = [t \in Threads |-> None]
    /\ attempt = [t \in Threads |-> 0]
    /\ res = [t \in Threads |-> "none"]
    /\ ncalls = 0
    /\ nexecs = 0
    /\ made = [t \in Threads |-> NoneMade]
    /\ dead = [t \in Threads |-> None]
    /\ victim = [t \in Threads |-> None]
    /\ replDead = [t \in Threads |-> FALSE]
    /\ hist = [c \in Chats |-> "clean"]
    /\ fresh = [c \in Chats |-> 0]
    /\ spc = [p \in Stoppers |-> "idle"]
    /\ stgt = [p \in Stoppers |-> None]
    /\ sawAlive = [p \in Stoppers |-> FALSE]
    /\ nstops = 0
    /\ stopDone = [e \in Execs |-> FALSE]
    /\ stopEff = [e \in Execs |-> FALSE]
    /\ tarmed = [e \in Execs |-> FALSE]
    /\ tage = [e \in Execs |-> 0]
    /\ pend = [c \in Chats |-> 0]
    /\ cbOf = [e \in Execs |-> 0]
    /\ since = [c \in Chats |-> 0]

\* No call of resolveWorkDir is under way.
WorkIdle ==
    /\ wsCfg = [BasePath |-> <<>>, ChatMap |-> <<>>, Default |-> <<>>]
    /\ wsArg = [chatID |-> 0, username |-> <<>>, title |-> <<>>]
    /\ wsDone = TRUE
    /\ wsOut = <<>>

\* A JSON value that is absent from the line, and the nil event.
NilRaw == [kind |-> "nil", content |-> <<>>]
NoEvent == [type |-> "none", text |-> <<>>]
NoLine == [json |-> FALSE, type |-> "", subtype |-> "", session_id |-> <<>>,
           message |-> NilRaw, result |-> NilRaw]

\* No readLoop of the parser on its own is running.
ParseIdle ==
    /\ sessionID = <<>>
    /\ scanning = FALSE
    /\ pline = NoLine
    /\ pevt = NoEvent
    /\ pdone = FALSE
    /\ nlines = 0

\* No call of formatV2 on its own is under way.
FmtIdle ==
    /\ fmtIn = <<>>
    /\ fmtDone = TRUE
    /\ fmtOut = <<>>

\* No platform call has been made.
NoCall == [kind |-> "none", id |-> 0, raw |-> <<>>, text |-> <<>>, mode |-> "",
           final |-> FALSE, ok |-> TRUE]

\* The assembler's locals at the start of streamResponse, the platform empty.
AsmStart ==
    /\ epos = 0
    /\ buf = <<>>
    /\ lastEdit = <<>>
    /\ msgID = 0
    /\ posts = <<>>
    /\ call = NoCall
    /\ nplat = 0
    /\ nfail = 0
    /\ nticks = 0
    /\ closedIDs = {}

\* No streamResponse is running.
AsmIdle ==
    /\ events = <<>>
    /\ apc = "idle"
    /\ AsmStart

UnitsIdle == WorkIdle /\ ParseIdle /\ FmtIdle /\ AsmIdle

\* The manager without timers (part_002).
Init ==
    /\ InitBase
    /\ UnitsIdle
    /\ timers = FALSE
    /\ timeout = 0

\* The manager with timers (part_001), for each configured timeout.
TimerInit ==
    /\ InitBase
    /\ UnitsIdle
    /\ timers = TRUE
    /\ timeout \in 0..MaxTimeout

Running == panicked = "no"

\* ------------------------------------------------------- Executor.Stop
\* Stop as one step, for the callers that hold m.mu (remove, Shutdown): an
\* executor that is not alive is left alone; otherwise stdin is closed, the
\* child is waited for (killed after shutdownTimeout), and alive is cleared.
StopsAlive(S) == {e \in S : alive[e]}

StopAll(S) ==
    /\ stopCalls' = [e \in Execs |-> IF e \in S THEN stopCalls[e] + 1 ELSE stopCalls[e]]
    /\ stdinClosed' = [e \in Execs |-> stdinClosed[e] \/ e \in StopsAlive(S)]
    /\ joined' = [e \in Execs |-> joined[e] \/ e \in StopsAlive(S)]
    /\ child' = [e \in Execs |-> IF e \in StopsAlive(S) THEN "exited" ELSE child[e]]
    /\ alive' = [e \in Execs |-> alive[e] /\ e \notin StopsAlive(S)]

\* A Reset, an expiry, a Shutdown or an executor's death on the chats C.
Break(C) ==
    /\ hist' = [c \in Chats |-> IF c \in C THEN "broken" ELSE hist[c]]
    /\ fresh' = [c \in Chats |-> IF c \in C THEN 0 ELSE fresh[c]]

\* ------------------------------------------------------ Manager.remove
\* A map in which remove finds no session.
NothingMapped(c) == {}

\* if sess, ok := m.sessions[chatID]; ok (part_002:156).
Mapped(c) == IF sessions[c] = None THEN {} ELSE {sessions[c]}

\* sess.timer.Stop() (part_001:89, 132): a pending timer will not fire; a
\* callback already started is not waited for.
StopTimers(S) == tarmed' = [e \in Execs |-> tarmed[e] /\ e \notin S]

\* A map that keeps the entry.
NotDeleted(c) == sessions

\* A delete that empties the whole map.
DeletesAll(c) == [x \in Chats |-> None]

\* delete(m.sessions, chatID) (part_002:159).
Deleted(c) == [sessions EXCEPT ![c] = None]

remove(c) ==
    /\ StopTimers(Mapped(c))
    /\ StopAll(Mapped(c))
    /\ sessions' = Deleted(c)
    /\ Break({c})

\* ------------------------------------------------- Manager.getOrCreate
\* A lookup that finds nothing.
NoLookup(c) == None

\* The lookup m.sessions[chatID] (part_002:129).
Lookup(c) == sessions[c]

\* An insertion that does not look at Start's result.
InsertsAlways(startOk) == TRUE

\* The session is put in the map only when Start returned no error
\* (part_002:136-147).
InsertsSession(startOk) == startOk

\* sess.timer = time.AfterFunc(InactivityTimeout, expire), whatever the
\* timeout is (part_001:118-120); the manager of part_002 has no timer.
ArmsTimer == timers

getOrCreate(t) ==
    /\ Running
    /\ pc[t] = "getOrCreate"
    /\ IF Lookup(chat[t]) # None
       THEN /\ sess' = [sess EXCEPT ![t] = Lookup(chat[t])]
            /\ pc' = [pc EXCEPT ![t] = "lock"]
            /\ UNCHANGED <<mgrVars, execVars, procVars, res, nexecs, made, chatHist,
                           tarmed, tage>>
       ELSE /\ nexecs < MaxSess
            /\ \E startOk \in BOOLEAN :
                 LET e == nexecs + 1
                     c == chat[t]
                 IN  /\ nexecs' = e
                     /\ made' = [made EXCEPT ![t][attempt[t]] = @ + 1]
                     /\ sessChat' = [sessChat EXCEPT ![e] = c]
                     /\ alive' = [alive EXCEPT ![e] = startOk]
                     /\ child' = [child EXCEPT ![e] = IF startOk THEN "running" ELSE "none"]
                     /\ rpc' = [rpc EXCEPT ![e] = IF startOk THEN "scan" ELSE "off"]
                     /\ ectx' = [ectx EXCEPT ![e] = cid[t]]
                     /\ tarmed' = [tarmed EXCEPT ![e] = startOk /\ ArmsTimer]
                     /\ tage' = [tage EXCEPT ![e] = 0]
                     /\ fresh' = [fresh EXCEPT ![c] = IF hist[c] = "broken" THEN 0 ELSE @ + 1]
                     /\ hist' = [hist EXCEPT ![c] = IF ~startOk /\ @ = "clean" THEN "failed" ELSE @]
                     /\ sessions' = IF InsertsSession(startOk)
                                    THEN [sessions EXCEPT ![c] = e]
                                    ELSE sessions
                     /\ IF startOk
                        THEN /\ sess' = [sess EXCEPT ![t] = e]
                             /\ pc' = [pc EXCEPT ![t] = "lock"]
                             /\ res' = res
                        ELSE /\ sess' = [sess EXCEPT ![t] = None]
                             /\ pc' = [pc EXCEPT ![t] = "ret"]
                             /\ res' = [res EXCEPT ![t] = "err"]
                     /\ UNCHANGED <<sessMu, stdinClosed, joined, stopCalls, respCh, stdinQ, texts,
                                    revt, rdone, rch>>
    /\ UNCHANGED <<chanVars, chat, cid, attempt, ncalls, dead, victim, replDead>>
    /\ UNCHANGED stopVars
    /\ UNCHANGED <<unitVars, timers, timeout, pend, cbOf, since>>

\* ----------------------------------------------------- Manager.acquire
\* A liveness test after every lock.
ChecksAliveAlways(n) == TRUE

\* acquire tests Alive() after the first sess.mu.Lock() only
\* (part_002:106-110, 121-122).
ChecksAlive(n) == n = 1

\* A dead session whose lock is kept.
HeldAfterDead(t) == [sessMu EXCEPT ![sess[t]] = t]

\* sess.mu.Unlock() on a dead executor (part_002:113): the lock is free again
UnlockedAfterDead(t) == sessMu

\* sess.mu.Lock() and the Alive() test that follows it; on a dead executor
\* the lock is released again (part_002:106-113).
acquireLock(t) ==
    /\ Running
    /\ pc[t] = "lock"
    /\ sessMu[sess[t]] = Free
    /\ IF ChecksAlive(attempt[t]) /\ ~alive[sess[t]]
       THEN /\ pc' = [pc EXCEPT ![t] = "remove"]
            /\ dead' = [dead EXCEPT ![t] = sess[t]]
            /\ sessMu' = UnlockedAfterDead(t)
            /\ UNCHANGED replDead
       ELSE /\ sessMu' = [sessMu EXCEPT ![sess[t]] = t]
            /\ pc' = [pc EXCEPT ![t] = IF timers THEN "touch" ELSE "xsCheck"]
            /\ replDead' = [replDead EXCEPT ![t] = attempt[t] = 2 /\ ~alive[sess[t]]]
            /\ UNCHANGED dead
    /\ UNCHANGED <<sessions, sessChat, execVars, procVars, chanVars, chat, sess, cid,
                   attempt, res, ncalls, nexecs, made, victim, chatHist>>
    /\ UNCHANGED stopVars
    /\ UNCHANGED <<timerVars, unitVars>>

\* sess.touch() of the manager with timers, under the session lock
\* (part_001:45, session.go:22-25): timer.Reset(timeout) arms the timer again,
\* also one that has fired or was stopped.
touch(t) ==
    /\ Running
    /\ pc[t] = "touch"
    /\ tarmed' = [tarmed EXCEPT ![sess[t]] = TRUE]
    /\ tage' = [tage EXCEPT ![sess[t]] = 0]
    /\ since' = [since EXCEPT ![chat[t]] = 0]
    /\ pc' = [pc EXCEPT ![t] = "xsCheck"]
    /\ UNCHANGED <<mgrVars, execVars, procVars, chanVars, chat, sess, cid, attempt, res,
                   ncalls, nexecs, callHist, chatHist, stopVars, unitVars, timers, timeout, pend, cbOf>>

\* m.remove(chatID) of the recovery path (part_002:114): it deletes whatever
\* session the map holds for the chat at that moment.
acquireRemove(t) ==
    /\ Running
    /\ pc[t] = "remove"
    /\ remove(chat[t])
    /\ victim' = [victim EXCEPT ![t] = sessions[chat[t]]]
    /\ attempt' = [attempt EXCEPT ![t] = 2]
    /\ pc' = [pc EXCEPT ![t] = "getOrCreate"]
    /\ UNCHANGED <<sessChat, sessMu, ectx, respCh, stdinQ, texts, rpc, revt, rdone, rch,
                   chanVars, chat, sess, cid, res, ncalls, nexecs, made, dead, replDead>>
    /\ UNCHANGED stopVars
    /\ UNCHANGED <<unitVars, timers, timeout, tage, pend, cbOf, since>>

\* ------------------------------------------------------- Executor.Send
\* e.mu.Lock(); if !e.alive return an error (part_004:118-124).
SendRequiresAlive(e) == alive[e]

SendCheck(t) ==
    /\ Running
    /\ pc[t] = "xsCheck"
    /\ IF SendRequiresAlive(sess[t])
       THEN /\ pc' = [pc EXCEPT ![t] = "xsInstall"]
            /\ res' = res
       ELSE /\ pc' = [pc EXCEPT ![t] = "ret"]
            /\ res' = [res EXCEPT ![t] = "err"]
    /\ UNCHANGED <<mgrVars, execVars, procVars, chanVars, chat, sess, cid, attempt,
                   ncalls, nexecs, callHist, chatHist>>
    /\ UNCHANGED stopVars
    /\ UNCHANGED <<timerVars, unitVars>>

\* ch := make(chan, 64); e.respCh = ch under respMu (part_004:142-145).
SendInstall(t) ==
    /\ Running
    /\ pc[t] = "xsInstall"
    /\ respCh' = [respCh EXCEPT ![sess[t]] = cid[t]]
    /\ chExec' = [chExec EXCEPT ![cid[t]] = sess[t]]
    /\ chState' = [chState EXCEPT ![cid[t]] = "open"]
    /\ pc' = [pc EXCEPT ![t] = "xsWrite"]
    /\ UNCHANGED <<mgrVars, alive, stdinClosed, joined, stopCalls, ectx, procVars, chBuf, outState,
                   outBuf, cancelled, panicked, chat, sess, cid, attempt, res, ncalls,
                   nexecs, callHist, chatHist>>
    /\ UNCHANGED stopVars
    /\ UNCHANGED <<timerVars, unitVars>>

\* stdin.Write(data): fails on a closed stdin and on a pipe whose reading end
\* is gone; on success the forwarder goroutine is started and out returned
\* (part_004:147-169).
WriteFails(e) == stdinClosed[e] \/ child[e] # "running"

SendWrite(t) ==
    /\ Running
    /\ pc[t] = "xsWrite"
    /\ IF WriteFails(sess[t])
       THEN /\ pc' = [pc EXCEPT ![t] = "xsClear"]
            /\ UNCHANGED <<stdinQ, outState, res>>
       ELSE /\ stdinQ' = [stdinQ EXCEPT ![sess[t]] = Append(@, cid[t])]
            /\ outState' = [outState EXCEPT ![cid[t]] = "open"]
            /\ res' = [res EXCEPT ![t] = "ok"]
            /\ pc' = [pc EXCEPT ![t] = "ret"]
    /\ UNCHANGED <<mgrVars, execVars, child, texts, rpc, revt, rdone, rch, chExec, chState,
                   chBuf, outBuf, cancelled, panicked, chat, sess, cid, attempt, ncalls,
                   nexecs, callHist, chatHist>>
    /\ UNCHANGED stopVars
    /\ UNCHANGED <<timerVars, unitVars>>

\* The write failed: e.respCh = nil under respMu (part_004:148-150).
SendClear(t) ==
    /\ Running
    /\ pc[t] = "xsClear"
    /\ respCh' = [respCh EXCEPT ![sess[t]] = None]
    /\ pc' = [pc EXCEPT ![t] = "xsClose"]
    /\ UNCHANGED <<mgrVars, alive, stdinClosed, joined, stopCalls, ectx, procVars, chanVars, chat,
                   sess, cid, attempt, res, ncalls, nexecs, callHist, chatHist>>
    /\ UNCHANGED stopVars
    /\ UNCHANGED <<timerVars, unitVars>>

\* close(ch) of the failure path (part_004:151); closing a closed channel
\* panics.
SendClose(t) ==
    /\ Running
    /\ pc[t] = "xsClose"
    /\ IF chState[cid[t]] = "closed"
       THEN /\ panicked' = "close of closed channel"
            /\ UNCHANGED <<chState, pc, res>>
       ELSE /\ chState' = [chState EXCEPT ![cid[t]] = "closed"]
            /\ pc' = [pc EXCEPT ![t] = "ret"]
            /\ res' = [res EXCEPT ![t] = "err"]
            /\ UNCHANGED panicked
    /\ UNCHANGED <<mgrVars, execVars, procVars, chExec, chBuf, outState, outBuf, cancelled,
                   chat, sess, cid, attempt, ncalls, nexecs, callHist, chatHist>>
    /\ UNCHANGED stopVars
    /\ UNCHANGED <<timerVars, unitVars>>

\* -------------------------------------------------------- Manager.Send
\* Manager.Send begins: m.acquire is entered (part_002:49-50).
Send(t, c) ==
    /\ Running
    /\ pc[t] = "idle"
    /\ ncalls < MaxCalls
    /\ ncalls' = ncalls + 1
    /\ cid' = [cid EXCEPT ![t] = ncalls + 1]
    /\ chat' = [chat EXCEPT ![t] = c]
    /\ attempt' = [attempt EXCEPT ![t] = 1]
    /\ pc' = [pc EXCEPT ![t] = "getOrCreate"]
    /\ UNCHANGED <<mgrVars, execVars, procVars, chanVars, sess, res, nexecs, callHist,
                   chatHist>>
    /\ UNCHANGED stopVars
    /\ UNCHANGED <<timerVars, unitVars>>

\* Manager.Send returns the channel or the error, and the deferred
\* sess.mu.Unlock() runs if acquire had returned a session (part_002:51-61).
\* Reset and Shutdown return here too; they hold no session lock.
SendReturn(t) ==
    /\ Running
    /\ pc[t] = "ret"
    /\ sessMu' = [e \in Execs |-> IF sessMu[e] = t THEN Free ELSE sessMu[e]]
    /\ pc' = [pc EXCEPT ![t] = "idle"]
    /\ chat' = [chat EXCEPT ![t] = None]
    /\ sess' = [sess EXCEPT ![t] = None]
    /\ cid' = [cid EXCEPT ![t] = None]
    /\ attempt' = [attempt EXCEPT ![t] = 0]
    /\ res' = [res EXCEPT ![t] = "none"]
    /\ made' = [made EXCEPT ![t] = NoneMade]
    /\ dead' = [dead EXCEPT ![t] = None]
    /\ victim' = [victim EXCEPT ![t] = None]
    /\ replDead' = [replDead EXCEPT ![t] = FALSE]
    /\ UNCHANGED <<sessions, sessChat, execVars, procVars, chanVars, ncalls, nexecs,
                   chatHist>>
    /\ UNCHANGED stopVars
    /\ UNCHANGED <<timerVars, unitVars>>

\* ------------------------------------------------------- Manager.Reset
\* Reset is m.remove(chatID) (part_002:66-68); the call then returns.
Reset(t, c) ==
    /\ Running
    /\ pc[t] = "idle"
    /\ ncalls < MaxCalls
    /\ ncalls' = ncalls + 1
    /\ remove(c)
    /\ chat' = [chat EXCEPT ![t] = c]
    /\ victim' = [victim EXCEPT ![t] = sessions[c]]
    /\ res' = [res EXCEPT ![t] = "reset"]
    /\ pc' = [pc EXCEPT ![t] = "ret"]
    /\ UNCHANGED <<sessChat, sessMu, ectx, respCh, stdinQ, texts, rpc, revt, rdone, rch,
                   chanVars, sess, cid, attempt, nexecs, made, dead, replDead>>
    /\ UNCHANGED stopVars
    /\ UNCHANGED <<unitVars, timers, timeout, tage, pend, cbOf, since>>

\* ------------------------------------------------------ Manager.Status
\* StatusInfo.Exists (part_002:71-84).
Status(c) == sessions[c] # None

\* ---------------------------------------------------- Manager.Shutdown
\* A range over the map that visits no session.
NoneMapped == {}

\* for chatID, sess := range m.sessions (part_002:91).
AllMapped == {sessions[c] : c \in Chats} \ {None}

\* Shutdown stops every session in the map and replaces the map, under m.mu
\* (part_002:87-96); the call then returns.
Shutdown(t) ==
    /\ Running
    /\ pc[t] = "idle"
    /\ ncalls < MaxCalls
    /\ ncalls' = ncalls + 1
    /\ StopTimers(AllMapped)
    /\ StopAll(AllMapped)
    /\ sessions' = [c \in Chats |-> None]
    /\ Break(Chats)
    /\ res' = [res EXCEPT ![t] = "shutdown"]
    /\ pc' = [pc EXCEPT ![t] = "ret"]
    /\ UNCHANGED <<sessChat, sessMu, ectx, respCh, stdinQ, texts, rpc, revt, rdone, rch,
                   chanVars, chat, sess, cid, attempt, nexecs, callHist>>
    /\ UNCHANGED stopVars
    /\ UNCHANGED <<unitVars, timers, timeout, tage, pend, cbOf, since>>

\* ------------------------------------------------- child process, ctx
\* The child exits on its own (crash, or end of input).
ChildExit(e) ==
    /\ Running
    /\ child[e] = "running"
    /\ child' = [child EXCEPT ![e] = "exited"]
    /\ Break({sessChat[e]})
    /\ UNCHANGED <<mgrVars, execVars, stdinQ, texts, rpc, revt, rdone, rch, chanVars,
                   thrVars, callHist>>
    /\ UNCHANGED stopVars
    /\ UNCHANGED <<timerVars, unitVars>>

\* The ctx a Manager.Send was called with is cancelled.  The forwarder of the
\* call watches it (part_004:162), and exec.CommandContext kills the child of
\* an executor that this call started (part_004:65, 76).
OwnChildren(k) == {e \in Execs : ectx[e] = k /\ child[e] = "running"}

Cancel(k) ==
    /\ Running
    /\ k <= ncalls
    /\ ~cancelled[k]
    /\ outState[k] = "open" \/ OwnChildren(k) # {}
    /\ cancelled' = [cancelled EXCEPT ![k] = TRUE]
    /\ child' = [e \in Execs |-> IF e \in OwnChildren(k) THEN "exited" ELSE child[e]]
    /\ Break({sessChat[e] : e \in OwnChildren(k)})
    /\ UNCHANGED <<mgrVars, execVars, stdinQ, texts, rpc, revt, rdone, rch, chExec, chState,
                   chBuf, outState, outBuf, panicked, thrVars, callHist>>
    /\ UNCHANGED stopVars
    /\ UNCHANGED <<timerVars, unitVars>>

\* ---------------------------------------------------- Executor.readLoop
\* closeResp (part_004:258-265): close the installed channel, clear the slot.
closeResp(e) ==
    IF respCh[e] = None
    THEN UNCHANGED <<respCh, chState, panicked>>
    ELSE IF chState[respCh[e]] = "closed"
         THEN /\ panicked' = "close of closed channel"
              /\ UNCHANGED <<respCh, chState>>
         ELSE /\ chState' = [chState EXCEPT ![respCh[e]] = "closed"]
              /\ respCh' = [respCh EXCEPT ![e] = None]
              /\ UNCHANGED panicked

\* A loop that scans on after a result line, with no closeResp.
ScansOn(d) == IF d = "eof" THEN "eofClose" ELSE "scan"

\* Where readLoop goes after the dispatch of an event.
AfterDispatch(d) ==
    CASE d = "no" -> "scan"
      [] d = "done" -> "close"
      [] d = "eof" -> "eofClose"

\* dispatch, first half: the slot is read under respMu (part_004:249-251);
\* with an empty slot the event is dropped.
dispatch(e, evt, d) ==
    /\ revt' = [revt EXCEPT ![e] = evt]
    /\ rdone' = [rdone EXCEPT ![e] = d]
    /\ rch' = [rch EXCEPT ![e] = respCh[e]]
    /\ rpc' = [rpc EXCEPT ![e] = IF respCh[e] = None THEN AfterDispatch(d) ELSE "send"]

\* scanner.Scan() returns an assistant line of the turn the child is
\* answering: parseLine gives a Text event, done = false, and dispatch reads
\* the slot.  An event is <<type, turn, n>>: the n-th assistant line of the
\* turn, or the result line that follows n assistant lines.
readText(e) ==
    /\ Running
    /\ rpc[e] = "scan"
    /\ stdinQ[e] # <<>>
    /\ texts[e] < MaxText
    /\ texts' = [texts EXCEPT ![e] = @ + 1]
    /\ dispatch(e, <<"Text", Head(stdinQ[e]), texts[e] + 1>>, "no")
    /\ UNCHANGED <<mgrVars, execVars, child, stdinQ, chanVars, thrVars, callHist, chatHist>>
    /\ UNCHANGED stopVars
    /\ UNCHANGED <<timerVars, unitVars>>

\* scanner.Scan() returns the result line of that turn: a Done event,
\* done = true.
readResult(e) ==
    /\ Running
    /\ rpc[e] = "scan"
    /\ stdinQ[e] # <<>>
    /\ stdinQ' = [stdinQ EXCEPT ![e] = Tail(@)]
    /\ texts' = [texts EXCEPT ![e] = 0]
    /\ dispatch(e, <<"Done", Head(stdinQ[e]), texts[e]>>, "done")
    /\ UNCHANGED <<mgrVars, execVars, child, chanVars, thrVars, callHist, chatHist>>
    /\ UNCHANGED stopVars
    /\ UNCHANGED <<timerVars, unitVars>>

\* scanner.Scan() returns false with scanner.Err() set (a line longer than
\* scanBufSize, a failed read): an Error event is dispatched (part_004:234).
readErr(e) ==
    /\ Running
    /\ rpc[e] = "scan"
    /\ dispatch(e, <<"Error", None>>, "eof")
    /\ Break({sessChat[e]})
    /\ UNCHANGED <<mgrVars, execVars, child, stdinQ, texts, chanVars, thrVars, callHist>>
    /\ UNCHANGED stopVars
    /\ UNCHANGED <<timerVars, unitVars>>

\* dispatch, second half: ch <- evt (part_004:253-255).  It blocks on a full
\* channel and panics on a closed one.
dispatchSend(e) ==
    /\ Running
    /\ rpc[e] = "send"
    /\ IF chState[rch[e]] = "closed"
       THEN /\ panicked' = "send on closed channel"
            /\ UNCHANGED <<chBuf, rpc>>
       ELSE /\ Len(chBuf[rch[e]]) < ChanCap
            /\ chBuf' = [chBuf EXCEPT ![rch[e]] = Append(@, revt[e])]
            /\ rpc' = [rpc EXCEPT ![e] = AfterDispatch(rdone[e])]
            /\ UNCHANGED panicked
    /\ UNCHANGED <<mgrVars, execVars, child, stdinQ, texts, revt, rdone, rch, chExec,
                   chState, outState, outBuf, cancelled, thrVars, callHist, chatHist>>
    /\ UNCHANGED stopVars
    /\ UNCHANGED <<timerVars, unitVars>>

\* closeResp after a result line (part_004:229-231).
readClose(e) ==
    /\ Running
    /\ rpc[e] = "close"
    /\ closeResp(e)
    /\ rpc' = [rpc EXCEPT ![e] = "scan"]
    /\ UNCHANGED <<mgrVars, alive, stdinClosed, joined, stopCalls, ectx, child, stdinQ, texts, revt,
                   rdone, rch, chExec, chBuf, outState, outBuf, cancelled, thrVars,
                   callHist, chatHist>>
    /\ UNCHANGED stopVars
    /\ UNCHANGED <<timerVars, unitVars>>

\* The loop has ended, at the end of the child's stdout or after a scanner
\* error: closeResp (part_004:238-239).
readExitClose(e) ==
    /\ Running
    /\ \/ rpc[e] = "scan" /\ child[e] = "exited"
       \/ rpc[e] = "eofClose"
    /\ closeResp(e)
    /\ rpc' = [rpc EXCEPT ![e] = "eofMark"]
    /\ UNCHANGED <<mgrVars, alive, stdinClosed, joined, stopCalls, ectx, child, stdinQ, texts, revt,
                   rdone, rch, chExec, chBuf, outState, outBuf, cancelled, thrVars,
                   callHist, chatHist>>
    /\ UNCHANGED stopVars
    /\ UNCHANGED <<timerVars, unitVars>>

\* e.alive = false, and readLoop returns (part_004:241-243).
readExitMark(e) ==
    /\ Running
    /\ rpc[e] = "eofMark"
    /\ alive' = [alive EXCEPT ![e] = FALSE]
    /\ rpc' = [rpc EXCEPT ![e] = "done"]
    /\ UNCHANGED <<mgrVars, stdinClosed, joined, stopCalls, ectx, respCh, child, stdinQ, texts, revt,
                   rdone, rch, chanVars, thrVars, callHist, chatHist>>
    /\ UNCHANGED stopVars
    /\ UNCHANGED <<timerVars, unitVars>>

\* ------------------------------------- the forwarder goroutine of a call
\* for evt := range ch { select { out <- evt; <-ctx.Done(): out <- Error,
\* return } }, with close(out) deferred (part_004:157-167).
forward(k) ==
    /\ Running
    /\ outState[k] = "open"
    /\ chBuf[k] # <<>>
    /\ chBuf' = [chBuf EXCEPT ![k] = Tail(@)]
    /\ \/ /\ outBuf' = [outBuf EXCEPT ![k] = Append(@, Head(chBuf[k]))]
          /\ UNCHANGED outState
       \/ /\ cancelled[k]
          /\ outBuf' = [outBuf EXCEPT ![k] = Append(@, <<"Error", None>>)]
          /\ outState' = [outState EXCEPT ![k] = "closed"]
    /\ UNCHANGED <<mgrVars, execVars, procVars, chExec, chState, cancelled,
                   panicked, thrVars, callHist, chatHist>>
    /\ UNCHANGED stopVars
    /\ UNCHANGED <<timerVars, unitVars>>

\* range ch ends on the closed, drained channel; close(out).
forwardEnd(k) ==
    /\ Running
    /\ outState[k] = "open"
    /\ chBuf[k] = <<>>
    /\ chState[k] = "closed"
    /\ outState' = [outState EXCEPT ![k] = "closed"]
    /\ UNCHANGED <<mgrVars, execVars, procVars, chExec, chState, chBuf, outBuf,
                   cancelled, panicked, thrVars, callHist, chatHist>>
    /\ UNCHANGED stopVars
    /\ UNCHANGED <<timerVars, unitVars>>

\* ------------------------------------------------------ Manager.expire
\* The inactivity timer of the chat's session fires: expire calls m.remove
\* (part_001:118-120, 139-142).
expire(c) ==
    /\ Running
    /\ sessions[c] # None
    /\ ncalls < MaxCalls
    /\ ncalls' = ncalls + 1
    /\ remove(c)
    /\ UNCHANGED <<sessChat, sessMu, ectx, respCh, stdinQ, texts, rpc, revt, rdone, rch,
                   chanVars, pc, chat, sess, cid, attempt, res, nexecs, callHist>>
    /\ UNCHANGED stopVars
    /\ UNCHANGED <<unitVars, timers, timeout, tage, pend, cbOf, since>>

\* ------------------------------------- Executor.Stop, called directly
\* Stop step by step, as any caller outside the manager's mutex runs it.
StopCall(p, e) ==
    /\ Running
    /\ spc[p] = "idle"
    /\ nstops < MaxStops
    /\ sessChat[e] # None
    /\ nstops' = nstops + 1
    /\ stgt' = [stgt EXCEPT ![p] = e]
    /\ spc' = [spc EXCEPT ![p] = "check"]
    /\ UNCHANGED <<mgrVars, execVars, procVars, chanVars, thrVars, callHist, chatHist,
                   sawAlive, stopDone, stopEff>>
    /\ UNCHANGED <<timerVars, unitVars>>

\* A Stop that does not look at e.alive.
AlwaysAlive(e) == TRUE

\* e.mu.Lock(); if !e.alive { return nil } (part_004:174-178).
StopFindsAlive(e) == alive[e]

StopCheck(p) ==
    /\ Running
    /\ spc[p] = "check"
    /\ sawAlive' = [sawAlive EXCEPT ![p] = StopFindsAlive(stgt[p])]
    /\ spc' = [spc EXCEPT ![p] = IF StopFindsAlive(stgt[p]) THEN "closeStdin" ELSE "ret"]
    /\ UNCHANGED <<mgrVars, execVars, procVars, chanVars, thrVars, callHist, chatHist,
                   stgt, nstops, stopDone, stopEff>>
    /\ UNCHANGED <<timerVars, unitVars>>

\* stdin.Close() (part_004:185-187).
StopCloseStdin(p) ==
    /\ Running
    /\ spc[p] = "closeStdin"
    /\ stdinClosed' = [stdinClosed EXCEPT ![stgt[p]] = TRUE]
    /\ spc' = [spc EXCEPT ![p] = "wait"]
    /\ UNCHANGED <<mgrVars, alive, joined, stopCalls, ectx, respCh, procVars, chanVars, thrVars,
                   callHist, chatHist, stgt, sawAlive, nstops, stopDone, stopEff>>
    /\ UNCHANGED <<timerVars, unitVars>>

\* cmd.Wait() returns: the child has ended, at the end of its input or by
\* the Kill that follows shutdownTimeout (part_004:189-199).
StopWait(p) ==
    /\ Running
    /\ spc[p] = "wait"
    /\ child' = [child EXCEPT ![stgt[p]] = "exited"]
    /\ joined' = [joined EXCEPT ![stgt[p]] = TRUE]
    /\ Break({sessChat[stgt[p]]})
    /\ spc' = [spc EXCEPT ![p] = "mark"]
    /\ UNCHANGED <<mgrVars, alive, stdinClosed, stopCalls, ectx, respCh, stdinQ, texts,
                   rpc, revt, rdone, rch, chanVars, thrVars, callHist, stgt, sawAlive,
                   nstops, stopDone, stopEff>>
    /\ UNCHANGED <<timerVars, unitVars>>

\* e.alive = false, then cancel() of the context of a child that has ended
\* (part_004:201-207).
StopMark(p) ==
    /\ Running
    /\ spc[p] = "mark"
    /\ alive' = [alive EXCEPT ![stgt[p]] = FALSE]
    /\ spc' = [spc EXCEPT ![p] = "ret"]
    /\ UNCHANGED <<mgrVars, stdinClosed, joined, stopCalls, ectx, respCh, procVars, chanVars,
                   thrVars, callHist, chatHist, stgt, sawAlive, nstops, stopDone, stopEff>>
    /\ UNCHANGED <<timerVars, unitVars>>

\* return nil (part_004:177, 208).
StopReturn(p) ==
    /\ Running
    /\ spc[p] = "ret"
    /\ stopDone' = [stopDone EXCEPT ![stgt[p]] = TRUE]
    /\ stopEff' = [stopEff EXCEPT ![stgt[p]] = @ \/ sawAlive[p]]
    /\ spc' = [spc EXCEPT ![p] = "idle"]
    /\ stgt' = [stgt EXCEPT ![p] = None]
    /\ sawAlive' = [sawAlive EXCEPT ![p] = FALSE]
    /\ UNCHANGED <<mgrVars, execVars, procVars, chanVars, thrVars, callHist, chatHist,
                   nstops>>
    /\ UNCHANGED <<timerVars, unitVars>>

\* ------------------------------------------------ the inactivity timers
\* One tick of the clock.  A pending timer that is due fires before the
\* clock moves on; the callback it starts may run any time later.
\* A timer that never comes due.
NeverDue(e) == FALSE

\* time.AfterFunc(d, f) and Timer.Reset(d): f is started once d has passed
\* since the timer was armed (part_001:118, session.go:24).
Due(e) == tarmed[e] /\ tage[e] >= timeout

Tick ==
    /\ Running
    /\ timers
    /\ \A e \in Execs : ~Due(e)
    /\ \/ \E e \in Execs : tarmed[e]
       \/ \E c \in Chats : since[c] < timeout
    /\ tage' = [e \in Execs |-> IF tarmed[e] /\ tage[e] < timeout THEN tage[e] + 1 ELSE tage[e]]
    /\ since' = [c \in Chats |-> IF since[c] < timeout THEN since[c] + 1 ELSE since[c]]
    /\ UNCHANGED <<mgrVars, execVars, procVars, chanVars, thrVars, callHist, chatHist,
                   stopVars, unitVars, timers, timeout, tarmed, pend, cbOf>>

\* The timer of session e fires: the runtime starts func() { m.expire(chatID) }
\* in a goroutine of its own (part_001:118-120).
timerFire(e) ==
    /\ Running
    /\ Due(e)
    /\ tarmed' = [tarmed EXCEPT ![e] = FALSE]
    /\ pend' = [pend EXCEPT ![sessChat[e]] = @ + 1]
    /\ cbOf' = [cbOf EXCEPT ![e] = @ + 1]
    /\ UNCHANGED <<mgrVars, execVars, procVars, chanVars, thrVars, callHist, chatHist,
                   stopVars, unitVars, timers, timeout, tage, since>>

\* The callback runs: expire logs and calls m.remove(chatID), which removes
\* the session the map holds for the chat at that moment (part_001:127-142).
expireRun(c) ==
    /\ Running
    /\ pend[c] > 0
    /\ pend' = [pend EXCEPT ![c] = @ - 1]
    /\ \E e \in Execs :
          /\ sessChat[e] = c
          /\ cbOf[e] > 0
          /\ cbOf' = [cbOf EXCEPT ![e] = @ - 1]
    /\ remove(c)
    /\ UNCHANGED <<sessChat, sessMu, ectx, respCh, stdinQ, texts, rpc, revt, rdone, rch,
                   chanVars, thrVars, callHist, stopVars, unitVars, timers, timeout, tage, since>>

\* ------------------------------------------------------- specifications
\* One manager thread's next step inside its call.
ThreadStep(t) ==
    \/ getOrCreate(t)
    \/ acquireLock(t)
    \/ acquireRemove(t)
    \/ SendCheck(t)
    \/ SendInstall(t)
    \/ SendWrite(t)
    \/ SendClear(t)
    \/ SendClose(t)
    \/ SendReturn(t)

CallStep == \E t \in Threads : ThreadStep(t)

\* The same in the manager with timers, where Send touches the session.
TimerThreadStep(t) ==
    \/ touch(t)
    \/ ThreadStep(t)

\* readLoop leaving its loop at the end of the child's stdout.
readExit(e) ==
    \/ readExitClose(e)
    \/ readExitMark(e)

ReaderExit == \E e \in Execs : readExit(e)

\* readLoop on the lines the child writes.
readLine(e) ==
    \/ readText(e)
    \/ readResult(e)
    \/ dispatchSend(e)
    \/ readClose(e)

\* The forwarder goroutine of a call.
forwarder(k) ==
    \/ forward(k)
    \/ forwardEnd(k)

\* Spec: the manager under any interleaving of Send, Reset, expiry and
\* Shutdown on two chats, with children that may exit at any time.  The
\* children write no output here: the steps that handle output change the
\* response slot and the channels only, which no step of the manager reads
\* before Executor.Send has passed its liveness test.
Next ==
    \/ \E t \in Threads, c \in Chats : Send(t, c)
    \/ \E t \in Threads, c \in Chats : Reset(t, c)
    \/ \E t \in Threads : Shutdown(t)
    \/ \E c \in Chats : expire(c)
    \/ CallStep
    \/ \E e \in Execs : ChildExit(e)
    \/ ReaderExit

Spec == Init /\ [][Next]_vars

\* SendSpec: concurrent Manager.Send calls only, on children that may exit.
SendNext ==
    \/ \E t \in Threads, c \in Chats : Send(t, c)
    \/ CallStep
    \/ \E e \in Execs : ChildExit(e)
    \/ ReaderExit

SendSpec == Init /\ [][SendNext]_vars

\* TurnSpec: the turns of one chat.  One thread makes the Manager.Send calls
\* one after the other, which is the order the session lock gives them; the
\* child answers, the reader and the forwarders run, a ctx may be cancelled.
\* Every thread, reader and forwarder that can step does so eventually, and a
\* child that has a message to answer eventually writes its result line.
TurnNext ==
    \/ \E c \in TurnChats : Send("a", c)
    \/ CallStep
    \/ \E e \in Execs : ChildExit(e)
    \/ \E e \in Execs : readErr(e)
    \/ \E e \in Execs : readLine(e)
    \/ ReaderExit
    \/ \E k \in Calls : forwarder(k)
    \/ \E k \in Calls : Cancel(k)

TurnFair ==
    /\ \A t \in Threads : WF_vars(ThreadStep(t))
    /\ \A e \in Execs : WF_vars(readLine(e) \/ readExit(e))
    /\ \A k \in Calls : WF_vars(forwarder(k))

TurnSpec == Init /\ [][TurnNext]_vars /\ TurnFair

\* StopSpec: Executor.Stop called directly, by two callers at once and again
\* later, on executors that one thread's Manager.Send calls start.
StopNext ==
    \/ \E c \in TurnChats : Send("a", c)
    \/ CallStep
    \/ \E e \in Execs : ChildExit(e)
    \/ ReaderExit
    \/ \E p \in Stoppers, e \in Execs : StopCall(p, e)
    \/ \E p \in Stoppers : StopCheck(p)
    \/ \E p \in Stoppers : StopCloseStdin(p)
    \/ \E p \in Stoppers : StopWait(p)
    \/ \E p \in Stoppers : StopMark(p)
    \/ \E p \in Stoppers : StopReturn(p)

StopSpec == Init /\ [][StopNext]_vars

\* TimerSpec: the manager with inactivity timers.  One thread makes the
\* Send calls of a chat, any thread may Reset it, the clock ticks, timers
\* fire and their callbacks run; the children run on.  Time passes, and every
\* timer, callback and thread that can step does so eventually.
TimerNext ==
    \/ \E c \in TurnChats : Send("a", c)
    \/ \E c \in TurnChats : Reset("b", c)
    \/ \E t \in Threads : TimerThreadStep(t)
    \/ Tick
    \/ \E e \in Execs : timerFire(e)
    \/ \E c \in Chats : expireRun(c)

TimerFair ==
    /\ \A t \in Threads : WF_vars(TimerThreadStep(t))
    /\ \A e \in Execs : WF_vars(timerFire(e))
    /\ \A c \in Chats : WF_vars(expireRun(c))
    /\ WF_vars(Tick)

TimerSpec == TimerInit /\ [][TimerNext]_vars /\ TimerFair

\* ---------------------------------------------------------- properties
\* Positions inside Executor.Send, after its liveness test.
InSend == {"xsInstall", "xsWrite", "xsClear", "xsClose"}

InFlight(c) == {t \in Threads : chat[t] = c /\ pc[t] \in InSend}

\* C1: for every chat, under concurrent Manager.Send calls alone, at most one
\* call is inside the executor's Send at any instant.
C1_OneSendInFlight == \A c \in Chats : Cardinality(InFlight(c)) <= 1

\* C2: every event channel that Send has returned is eventually closed, as
\* long as the process has not panicked.
C2_ChannelEventuallyClosed ==
    \A k \in Calls : (outState[k] = "open" /\ Running) ~> (outState[k] = "closed" \/ ~Running)

OpenOn(e) == {k \in Calls : chExec[k] = e /\ chState[k] = "open"}

\* C3: at most one event channel is open on an executor at any instant.
C3_OneOpenChannel == \A e \in Execs : Cardinality(OpenOn(e)) <= 1

\* The calls whose events a channel pair of call k holds; None tags an Error
\* made by the reader or the forwarder itself.
TurnsIn(k) == {chBuf[k][i][2] : i \in 1..Len(chBuf[k])} \cup {outBuf[k][i][2] : i \in 1..Len(outBuf[k])}

\* C4: the turns of a chat are serialized: no channel receives an event or the
\* result line of another call's turn.
C4_TurnsSerialized == \A k \in Calls : TurnsIn(k) \subseteq {k, None}

\* C5: every session in the map is the one made for its chat, on an executor
\* whose Start succeeded, and no session is mapped under two chats.
C5_OneStartedSessionPerChat ==
    \A c \in Chats :
        sessions[c] # None =>
            /\ sessChat[sessions[c]] = c
            /\ rpc[sessions[c]] # "off"
            /\ \A d \in Chats : sessions[d] = sessions[c] => d = c

\* C5 witness: a chat has a session in the map after an earlier Start for the
\* same chat failed.
C5_Witness ==
    \E c \in Chats : \E e \in Execs :
        /\ sessions[c] # None
        /\ e < sessions[c]
        /\ sessChat[e] = c
        /\ rpc[e] = "off"

\* C6 as stated: with no Reset, expiry, Shutdown or executor death on a chat,
\* the factory is invoked at most once for it.
C6_Reuse == \A c \in Chats : hist[c] # "broken" => fresh[c] <= 1

\* C6 amended: with no Reset, expiry, Shutdown, executor death or failed Start
\* on a chat, the factory is invoked at most once for it, the session it made
\* is the one in the map, and every call inside the executor uses it.
C6_ReuseNoFailedStart ==
    \A c \in Chats :
        hist[c] = "clean" =>
            /\ fresh[c] <= 1
            /\ fresh[c] = 1 => sessions[c] # None /\ sessChat[sessions[c]] = c
            /\ \A t \in InFlight(c) : sess[t] = sessions[c]

\* C6 witness: two Send calls have written to the one session of a chat that
\* saw no Reset, expiry, Shutdown, death or failed Start.
C6_Witness ==
    \E c \in Chats :
        /\ hist[c] = "clean"
        /\ fresh[c] = 1
        /\ sessions[c] # None
        /\ Len(stdinQ[sessions[c]]) = 2

\* C7: a Manager.Send that found its session's executor dead under the lock
\* has, when it returns, removed that session and invoked the factory exactly
\* one more time.
C7_Recovery ==
    \A t \in Threads :
        (pc[t] = "ret" /\ dead[t] # None) => (victim[t] = dead[t] /\ made[t][2] = 1)

\* C8: one Manager.Send invokes the factory at most twice, and when the
\* replacement was not alive as the call locked it, the call returns an error
\* and no channel.
C8_SingleReplacement ==
    \A t \in Threads :
        /\ made[t][1] + made[t][2] <= 2
        /\ (pc[t] = "ret" /\ replDead[t]) => (res[t] = "err" /\ outState[cid[t]] = "none")

\* C8 witness: a call returns after it locked a replacement that was not alive.
C8_Witness == \E t \in Threads : pc[t] = "ret" /\ replDead[t] /\ made[t] = <<1, 1>>

\* C9: the remove of a recovery deletes no session other than the dead one the
\* call acquired.
C9_AtomicReplacement == \A t \in Threads : victim[t] \in {None, dead[t]}

\* C10: once a Stop call on an executor has returned the executor is not
\* alive, once one that found it alive has returned its stdin is closed and its
\* process joined, and a Stop that finds the executor not alive returns at once
\* and changes nothing.
C10_StopIdempotent ==
    /\ [](\A e \in Execs :
            /\ stopDone[e] => ~alive[e]
            /\ stopEff[e] => (stdinClosed[e] /\ joined[e]))
    /\ [][\A p \in Stoppers :
            (spc[p] = "check" /\ ~alive[stgt[p]] /\ spc'[p] # "check") =>
                (spc'[p] = "ret" /\ UNCHANGED <<mgrVars, execVars, procVars, chanVars>>)]_vars

\* C10 witness: after a Stop that found the executor alive has returned,
\* another Stop on it has found it not alive.
C10_Witness ==
    \E p \in Stoppers :
        /\ spc[p] = "ret"
        /\ ~sawAlive[p]
        /\ stopEff[stgt[p]]

C12_Shutdown ==
    [][\A t \in Threads :
            Shutdown(t) =>
                /\ \A c \in Chats : sessions'[c] = None
                /\ \A c \in Chats :
                       sessions[c] # None =>
                           /\ ~alive'[sessions[c]]
                           /\ stopCalls'[sessions[c]] = 1]_vars

\* C12 witness: a Shutdown that found a live session in the map has stopped
\* it and has not returned yet.
C12_Witness ==
    \E t \in Threads : \E e \in Execs :
        /\ pc[t] = "ret"
        /\ res[t] = "shutdown"
        /\ ncalls = 2
        /\ nexecs = 1
        /\ stdinClosed[e]
        /\ stopCalls[e] = 1

\* C13: with a positive timeout, a session in the map is eventually removed
\* once the Sends have ended, and the expiry that removes a session leaves its
\* executor with exactly one Stop call by the manager.
C13_Expiry ==
    /\ \A c \in Chats : (timeout > 0 /\ sessions[c] # None) ~> (sessions[c] = None)
    /\ <>[](timeout > 0 => \A c \in Chats : sessions[c] = None)
    /\ [][\A c \in Chats :
            (expireRun(c) /\ sessions[c] # None) =>
                (sessions'[c] = None /\ stopCalls'[sessions[c]] = 1)]_vars

\* C13 witness: after one Send and nothing else, the session it created has
\* been removed and its live executor stopped, which only the expiry does.
C13_Witness ==
    /\ timeout > 0
    /\ ncalls = 1
    /\ nexecs = 1
    /\ \A t \in Threads : pc[t] = "idle"
    /\ \A c \in Chats : sessions[c] = None
    /\ stopCalls[1] = 1
    /\ stdinClosed[1]

\* C14: expiry never removes a session while less than the full timeout has
\* passed since the most recent Send touched the chat.
C14_TouchResetsClock ==
    [][\A c \in Chats :
            (expireRun(c) /\ sessions[c] # None) => since[c] >= timeout]_vars

\* C15: with a timeout of 0 the expiry path removes no session.
C15_NoExpiryWithoutTimeout ==
    [][\A c \in Chats :
            (expireRun(c) /\ sessions[c] # None) => timeout > 0]_vars

\* C16: whatever the order of an expiry callback and an explicit removal on
\* one chat, the manager has called Stop at most once on every executor, and
\* an executor it has stopped is not in the map.
C16_ExpiryToleratesRemoval ==
    \A e \in Execs :
        /\ stopCalls[e] <= 1
        /\ stopCalls[e] = 1 => sessions[sessChat[e]] # e
        /\ tarmed[e] /\ sessions[sessChat[e]] = e => stopCalls[e] = 0

\* C16 witness: the timer of a session has fired, and before its callback ran
\* a Reset has removed and stopped the session.
C16_Witness ==
    \E t \in Threads :
        /\ pc[t] = "ret"
        /\ res[t] = "reset"
        /\ victim[t] # None
        /\ stopCalls[victim[t]] = 1
        /\ pend[chat[t]] > 0

\* ------------------------------------------------------------ C17
\* getOrCreate has invoked the factory and Start returned an error.
StartFails(t) == getOrCreate(t) /\ nexecs' = nexecs + 1 /\ ~alive'[nexecs + 1]

\* C17: when Start fails on a freshly created executor, Manager.Send returns
\* the error, the map is left exactly as it was (no session for the chat, no
\* other entry touched), the failing attempt has invoked the factory once,
\* and the call invokes it no more before it returns.
C17_StartFailure ==
    [][\A t \in Threads :
         /\ StartFails(t) => /\ pc'[t] = "ret"
                             /\ res'[t] = "err"
                             /\ sess'[t] = None
                             /\ sessions' = sessions
                             /\ made'[t][attempt[t]] = 1
         /\ (pc[t] = "ret" /\ res[t] = "err") => (made'[t] = made[t] \/ pc'[t] = "idle")]_vars

\* A Send on one chat is about to return Start's error while another chat
\* keeps its session.
C17_Witness ==
    \E t \in Threads :
        /\ pc[t] = "ret" /\ res[t] = "err" /\ sess[t] = None
        /\ made[t] = <<1, 0>>
        /\ sessions[chat[t]] = None
        /\ \E c \in Chats : c # chat[t] /\ sessions[c] # None /\ alive[sessions[c]]

\* ------------------------------------------------------------ C18
\* C18: when the stdin write of Executor.Send has failed, the call returns
\* an error and no channel, the response slot is empty, and the manager has
\* neither removed the session nor stopped the executor.
C18_WriteFailure ==
    [][\A t \in Threads :
         SendClose(t) => /\ pc'[t] = "ret"
                         /\ res'[t] = "err"
                         /\ outState'[cid[t]] = "none"
                         /\ respCh'[sess[t]] = None
                         /\ sessions' = sessions
                         /\ stopCalls' = stopCalls]_vars

\* ------------------------------------------------------------ C19
\* What the consumer of call k's channel has received.
Received(k) == outBuf[k]

\* C19: the consumer receives the events in the order the reader decoded
\* them, with none missing in between: after the n-th assistant line of a
\* turn comes the next assistant line of that turn, its result, or an Error;
\* nothing comes after a Done or an Error.  A channel that delivers its own
\* turn's Done has delivered exactly that turn's assistant lines before it,
\* and the first call's channel carries no other turn's events.
C19_EventOrder ==
    \A k \in Calls :
        LET s == Received(k)
            n == Len(s)
        IN  /\ \A i \in 1..(n - 1) :
                  /\ s[i][1] = "Text"
                  /\ \/ s[i + 1] = <<"Text", s[i][2], s[i][3] + 1>>
                     \/ s[i + 1] = <<"Done", s[i][2], s[i][3]>>
                     \/ s[i + 1][1] = "Error"
            /\ (n > 0 /\ s[n][1] = "Done" /\ s[n][2] = k) =>
                  s[1] \in {<<"Text", k, 1>>, <<"Done", k, 0>>}
            /\ \A i \in 1..n : k = 1 /\ s[i][1] # "Error" => s[i][2] = 1

\* The second turn on one executor, begun after the first had ended, has
\* delivered its assistant line and then its Done, and the channel is closed.
C19_Witness ==
    /\ chExec[1] # None /\ chExec[2] = chExec[1]
    /\ outBuf[1] = <<<<"Text", 1, 1>>, <<"Done", 1, 1>>>>
    /\ outBuf[2] = <<<<"Text", 2, 1>>, <<"Done", 2, 1>>>>
    /\ outState[2] = "closed"

\* ------------------------------------------------------------ C20
\* The turn of call k is open: Send has returned out, and ch has not been
\* closed.
TurnOpen(k) == outState[k] = "open" /\ chState[k] = "open"

\* C20: once the ctx of a call is cancelled while its turn is open, the
\* returned channel eventually delivers an Error event and is closed.
C20_CancelDelivered ==
    \A k \in Calls :
        (cancelled[k] /\ TurnOpen(k)) ~>
            (outState[k] = "closed" /\ \E i \in 1..Len(outBuf[k]) : outBuf[k][i][1] = "Error")

\* ------------------------------------------------------------ C21
\* C21: the cancellation of the ctx of one Manager.Send, also of the Send
\* that created the session, leaves the executor alive and its child
\* process running.
C21_CancelSparesExecutor ==
    [][\A k \in Calls :
         (Cancel(k) /\ outState[k] = "open") => (child' = child /\ alive' = alive)]_vars

\* ------------------------------------------------------------ C22
\* The Executor.Send that installed channel k is on its way to close it: its
\* stdin write has failed or is going to fail (part_004:147-151).
SendWillClose(k) ==
    \E t \in Threads :
        /\ cid[t] = k
        /\ \/ pc[t] \in {"xsClear", "xsClose"}
           \/ pc[t] = "xsWrite" /\ WriteFails(sess[t])

\* C22: at the end of stdout or on a scanner error the reader sends no Text,
\* closes the channel in the response slot if there is one, and clears
\* alive; when it has finished, the executor is not alive and no channel
\* installed before is left open (an open one is about to be closed by the
\* Send that installed it).
C22_ReaderExit ==
    [][\A e \in Execs :
         /\ readExitClose(e) =>
                /\ chBuf' = chBuf
                /\ respCh[e] # None => chState'[respCh[e]] = "closed"
         /\ readExitMark(e) =>
                /\ ~alive'[e]
                /\ \A k \in OpenOn(e) : SendWillClose(k)]_vars

\* ------------------------------------------------------------ C23
\* ChatsSpec: the manager with timers on two chats: Sends and Resets on
\* either chat by either thread, the clock, the timers and their callbacks.
ChatsNext ==
    \/ \E t \in Threads, c \in Chats : Send(t, c)
    \/ \E t \in Threads, c \in Chats : Reset(t, c)
    \/ \E t \in Threads : TimerThreadStep(t)
    \/ Tick
    \/ \E e \in Execs : timerFire(e)
    \/ \E c \in Chats : expireRun(c)

ChatsSpec == TimerInit /\ [][ChatsNext]_vars

\* A step the manager takes for chat c: a Send or a Reset of the chat begins
\* or goes on, the timer of a session of the chat fires, its callback runs.
ForChat(c) ==
    \/ \E t \in Threads : Send(t, c) \/ Reset(t, c)
    \/ \E t \in Threads : chat[t] = c /\ TimerThreadStep(t)
    \/ \E e \in Execs : sessChat[e] = c /\ timerFire(e)
    \/ expireRun(c)

\* The step leaves every session of chat c as it is, and makes none.
Untouched(c) ==
    /\ sessions'[c] = sessions[c]
    /\ pend'[c] = pend[c]
    /\ \A e \in Execs :
          (sessChat[e] = c \/ sessChat'[e] = c) =>
              /\ sessChat'[e] = sessChat[e]
              /\ alive'[e] = alive[e]
              /\ child'[e] = child[e]
              /\ stdinClosed'[e] = stdinClosed[e]
              /\ stopCalls'[e] = stopCalls[e]
              /\ tarmed'[e] = tarmed[e]

\* C23: a Send, a Reset or an expiry for one chat never creates, removes,
\* stops or replaces the session of another chat; the sessions of two chats
\* are two sessions, each made for its chat, and each chat whose history has
\* no failed Start, removal or death has had one factory invocation.
C23_ChatsIndependent ==
    /\ [][\A a, b \in Chats : (a # b /\ ForChat(a)) => Untouched(b)]_vars
    /\ [](\A c \in Chats : sessions[c] # None =>
              /\ sessChat[sessions[c]] = c
              /\ \A d \in Chats : d # c => sessions[d] # sessions[c]
              /\ hist[c] = "clean" => fresh[c] = 1)

\* Both chats have had a session; the one of chat 1 has been removed and
\* stopped, the one of chat 2 is mapped, alive and was never stopped.
C23_Witness ==
    /\ nexecs = 2
    /\ sessions[1] = None
    /\ \E e \in Execs : sessChat[e] = 1 /\ stopCalls[e] = 1
    /\ sessions[2] # None
    /\ alive[sessions[2]] /\ stopCalls[sessions[2]] = 0 /\ fresh[2] = 1

\* ------------------------------------------------ workspace resolution
\* Strings are sequences of one-character strings. A path, and a chat-map
\* value or default naming a subdirectory, is the sequence of its segments
\* between separators; the base path is absolute.
Usernames == {<<>>, <<"b">>, <<"@", "b">>, <<"T">>}
Titles == {<<>>, <<"T">>}
ChatIDs == {7, -12}
Keys == {<<"@", "b">>, <<"b">>, <<"T">>, <<"7">>, <<"-", "1", "2">>}
Names == {<<"w">>, <<"v">>, <<"..", "x">>}
Defaults == {<<"home">>, <<"..">>}
Bases == {<<"srv", "ws">>}

\* The chat maps: any of the keys present, each with any of the names.
ChatMaps == UNION {[D -> Names] : D \in SUBSET Keys}

\* strings.TrimPrefix
TrimPrefix(s, p) ==
    IF Len(s) >= Len(p) /\ SubSeq(s, 1, Len(p)) = p
    THEN SubSeq(s, Len(p) + 1, Len(s))
    ELSE s

\* fmt.Sprintf("%d", n)
DigitChars == <<"0", "1", "2", "3", "4", "5", "6", "7", "8", "9">>

RECURSIVE Digits(_)
Digits(n) ==
    IF n < 10 THEN <<DigitChars[n + 1]>>
    ELSE Digits(n \div 10) \o <<DigitChars[(n % 10) + 1]>>

Sprintf_d(n) == IF n < 0 THEN <<"-">> \o Digits(-n) ELSE Digits(n)

\* filepath.Clean of a rooted path: "." and empty segments go, ".." takes the
\* segment before it away, and is dropped at the root.
RECURSIVE CleanFrom(_, _)
CleanFrom(done, rest) ==
    IF rest = <<>> THEN done
    ELSE LET h == Head(rest)
         IN  CleanFrom(IF h = "." \/ h = "" THEN done
                       ELSE IF h = ".."
                            THEN IF done = <<>> THEN <<>>
                                 ELSE SubSeq(done, 1, Len(done) - 1)
                            ELSE Append(done, h),
                       Tail(rest))

Clean(p) == CleanFrom(<<>>, p)

\* filepath.Join(base, name): the elements joined, then cleaned
Join(base, name) == Clean(base \o name)

\* A lookup that tries the chat-id before the names.
resolveByID(chatID, username, title) ==
    LET m == wsCfg.ChatMap
        base == wsCfg.BasePath
        uname == TrimPrefix(username, <<"@">>)
    IN  IF Sprintf_d(chatID) \in DOMAIN m THEN Join(base, m[Sprintf_d(chatID)])
        ELSE IF username # <<>> /\ (<<"@">> \o uname) \in DOMAIN m
             THEN Join(base, m[<<"@">> \o uname])
        ELSE IF username # <<>> /\ uname \in DOMAIN m THEN Join(base, m[uname])
        ELSE IF title # <<>> /\ title \in DOMAIN m THEN Join(base, m[title])
        ELSE Join(base, wsCfg.Default)

\* Manager.resolveWorkDir
resolveWorkDir(chatID, username, title) ==
    LET m == wsCfg.ChatMap
        base == wsCfg.BasePath
        uname == TrimPrefix(username, <<"@">>)
    IN  IF username # <<>> /\ (<<"@">> \o uname) \in DOMAIN m
        THEN Join(base, m[<<"@">> \o uname])
        ELSE IF username # <<>> /\ uname \in DOMAIN m
        THEN Join(base, m[uname])
        ELSE IF title # <<>> /\ title \in DOMAIN m
        THEN Join(base, m[title])
        ELSE IF Sprintf_d(chatID) \in DOMAIN m
        THEN Join(base, m[Sprintf_d(chatID)])
        ELSE Join(base, wsCfg.Default)

\* One call of resolveWorkDir, for each configuration and routing input.
WorkInit ==
    /\ InitBase
    /\ timers = FALSE
    /\ timeout = 0
    /\ wsCfg \in [BasePath : Bases, ChatMap : ChatMaps, Default : Defaults]
    /\ wsArg \in [chatID : ChatIDs, username : Usernames, title : Titles]
    /\ wsDone = FALSE
    /\ wsOut = <<>>
    /\ ParseIdle
    /\ FmtIdle
    /\ AsmIdle

ResolveCall ==
    /\ ~wsDone
    /\ wsDone' = TRUE
    /\ wsOut' = resolveWorkDir(wsArg.chatID, wsArg.username, wsArg.title)
    /\ UNCHANGED <<wsCfg, wsArg, parseVars, fmtVars, asmVars>>
    /\ UNCHANGED <<mgrVars, execVars, procVars, chanVars, thrVars, callHist, chatHist,
                   stopVars, timerVars>>

WorkNext == ResolveCall

WorkSpec == WorkInit /\ [][WorkNext]_vars

\* p is the base path or lies below it.
Under(base, p) ==
    LET b == Clean(base)
    IN  Len(p) >= Len(b) /\ SubSeq(p, 1, Len(b)) = b

\* ------------------------------------------------------------ C24
\* C24: for every routing input and every configuration, the path that
\* resolveWorkDir returns is the base path or a descendant of it.
C24_UnderBase == wsDone => Under(wsCfg.BasePath, wsOut)

\* ------------------------------------------------------------ C25
\* The keys a routing input is looked up under, in order: "@name" and "name"
\* of a non-empty username without its leading "@", a non-empty title, the
\* decimal chat-id.
Candidates(a) ==
    LET name == IF a.username # <<>> /\ Head(a.username) = "@"
                THEN Tail(a.username) ELSE a.username
    IN  (IF a.username # <<>> THEN << <<"@">> \o name, name >> ELSE <<>>)
        \o (IF a.title # <<>> THEN <<a.title>> ELSE <<>>)
        \o <<Sprintf_d(a.chatID)>>

\* C25: the result is the base path joined with the subdirectory of the first
\* candidate key the chat map holds, and with the default when it holds none.
C25_FirstMatch ==
    wsDone =>
        LET c == Candidates(wsArg)
            hits == {i \in 1..Len(c) : c[i] \in DOMAIN wsCfg.ChatMap}
        IN  IF hits = {}
            THEN wsOut = Join(wsCfg.BasePath, wsCfg.Default)
            ELSE LET i == CHOOSE j \in hits : \A h \in hits : j <= h
                 IN  wsOut = Join(wsCfg.BasePath, wsCfg.ChatMap[c[i]])

\* A call whose username is "@b" on a map that holds "b", the title and the
\* chat-id with different subdirectories, and not "@b": the one of "b" wins.
C25_Witness ==
    /\ wsDone
    /\ wsArg = [chatID |-> 7, username |-> <<"@", "b">>, title |-> <<"T">>]
    /\ DOMAIN wsCfg.ChatMap = {<<"b">>, <<"T">>, <<"7">>}
    /\ wsCfg.ChatMap[<<"b">>] = <<"w">>
    /\ wsCfg.ChatMap[<<"T">>] = <<"v">>
    /\ wsCfg.ChatMap[<<"7">>] = <<"v">>
    /\ wsOut = <<"srv", "ws", "w">>

\* ------------------------------------------------------ the line parser
MaxBlocks == 2
MaxLines == 2

\* contentBlock: type and text. json.RawMessage: absent ("nil"), a value that
\* does not unmarshal into contentMessage ("bad"), or an object with its
\* content blocks ("obj").
BlockTexts == {<<>>, <<"a">>, <<"b">>}
Blocks == [type : {"text", "tool_use"}, text : BlockTexts]
Contents == UNION {[1..n -> Blocks] : n \in 0..MaxBlocks}
Raws == {NilRaw, [kind |-> "bad", content |-> <<>>]}
            \cup {[kind |-> "obj", content |-> c] : c \in Contents}

\* The stdout lines: one that is not JSON for a streamMessage, and the
\* streamMessages of each type with the fields the parser reads for the type.
Lines ==
    {NoLine}
    \cup {[json |-> TRUE, type |-> "system", subtype |-> s, session_id |-> i,
           message |-> NilRaw, result |-> NilRaw] :
              s \in {"", "init", "status"}, i \in {<<>>, <<"s">>, <<"t">>}}
    \cup {[json |-> TRUE, type |-> "assistant", subtype |-> "", session_id |-> <<>>,
           message |-> m, result |-> NilRaw] : m \in Raws}
    \cup {[json |-> TRUE, type |-> "result", subtype |-> "", session_id |-> <<>>,
           message |-> NilRaw, result |-> r] : r \in Raws}
    \cup {[json |-> TRUE, type |-> "stream_event", subtype |-> "", session_id |-> <<>>,
           message |-> m, result |-> NilRaw] :
              m \in {NilRaw, [kind |-> "obj",
                              content |-> <<[type |-> "text", text |-> <<"a">>]>>]}}

\* The text of the first block only.
firstText(raw) ==
    IF raw.kind # "obj" \/ raw.content = <<>> THEN <<>>
    ELSE IF raw.content[1].type = "text" THEN raw.content[1].text ELSE <<>>

\* extractText: the strings.Builder loop over msg.Content
RECURSIVE writeBlocks(_, _)
writeBlocks(b, content) ==
    IF content = <<>> THEN b
    ELSE writeBlocks(IF Head(content).type = "text" THEN b \o Head(content).text ELSE b,
                     Tail(content))

extractText(raw) ==
    IF raw.kind = "nil" THEN <<>>
    ELSE IF raw.kind = "bad" THEN <<>>
    ELSE writeBlocks(<<>>, raw.content)

\* handleSystem: the session id the executor holds afterwards
handleSystem(msg) ==
    IF msg.subtype = "init" /\ msg.session_id # <<>> THEN msg.session_id ELSE sessionID

\* parseLine: the event, the end-of-turn flag, and e.sessionID afterwards
parseLine(line) ==
    IF ~line.json
    THEN [evt |-> NoEvent, done |-> FALSE, sid |-> sessionID]
    ELSE IF line.type = "system"
    THEN [evt |-> NoEvent, done |-> FALSE, sid |-> handleSystem(line)]
    ELSE IF line.type = "assistant"
    THEN LET text == extractText(line.message)
         IN  IF text # <<>>
             THEN [evt |-> [type |-> "Text", text |-> text], done |-> FALSE,
                   sid |-> sessionID]
             ELSE [evt |-> NoEvent, done |-> FALSE, sid |-> sessionID]
    ELSE IF line.type = "result"
    THEN [evt |-> [type |-> "Done", text |-> extractText(line.result)], done |-> TRUE,
          sid |-> sessionID]
    ELSE [evt |-> NoEvent, done |-> FALSE, sid |-> sessionID]

\* readLoop on a stream of lines: Scan returns a line and the loop body parses
\* it; or Scan returns false and the loop is left.
ParseInit ==
    /\ InitBase
    /\ timers = FALSE
    /\ timeout = 0
    /\ WorkIdle
    /\ FmtIdle
    /\ AsmIdle
    /\ sessionID = <<>>
    /\ scanning = TRUE
    /\ pline = NoLine
    /\ pevt = NoEvent
    /\ pdone = FALSE
    /\ nlines = 0

OldVarsStay ==
    UNCHANGED <<mgrVars, execVars, procVars, chanVars, thrVars, callHist, chatHist,
                stopVars, timerVars>>

ScanLine(l) ==
    /\ scanning
    /\ nlines < MaxLines
    /\ nlines' = nlines + 1
    /\ pline' = l
    /\ pevt' = parseLine(l).evt
    /\ pdone' = parseLine(l).done
    /\ sessionID' = parseLine(l).sid
    /\ UNCHANGED <<scanning, wsVars, fmtVars, asmVars>>
    /\ OldVarsStay

ScanEnd ==
    /\ scanning
    /\ scanning' = FALSE
    /\ UNCHANGED <<sessionID, pline, pevt, pdone, nlines, wsVars, fmtVars, asmVars>>
    /\ OldVarsStay

ParseNext ==
    \/ \E l \in Lines : ScanLine(l)
    \/ ScanEnd

ParseSpec == ParseInit /\ [][ParseNext]_vars

\* ------------------------------------------------------------ C28
\* The text blocks of a value, in order, with nothing between them; the empty
\* string when the value is missing or has no content.
TextBlocks(raw) ==
    IF raw.kind = "obj" THEN SelectSeq(raw.content, LAMBDA b : b.type = "text") ELSE <<>>

RECURSIVE Concat(_)
Concat(bs) == IF bs = <<>> THEN <<>> ELSE Head(bs).text \o Concat(Tail(bs))

\* What the protocol table gives for a line: event, end of turn, session id.
Table(l, sid) ==
    CASE l.json /\ l.type = "system" ->
             [evt |-> NoEvent, done |-> FALSE,
              sid |-> IF l.subtype = "init" /\ l.session_id # <<>> THEN l.session_id ELSE sid]
      [] l.json /\ l.type = "assistant" ->
             [evt |-> IF Concat(TextBlocks(l.message)) = <<>> THEN NoEvent
                      ELSE [type |-> "Text", text |-> Concat(TextBlocks(l.message))],
              done |-> FALSE, sid |-> sid]
      [] l.json /\ l.type = "result" ->
             [evt |-> [type |-> "Done", text |-> Concat(TextBlocks(l.result))],
              done |-> TRUE, sid |-> sid]
      [] OTHER -> [evt |-> NoEvent, done |-> FALSE, sid |-> sid]

\* C28: each line the reader scans is parsed as the protocol table says, and
\* the reader stays in its scan loop whatever the line is.
C28_ParseTable ==
    [][\A l \in Lines :
          ScanLine(l) =>
              /\ pevt' = Table(l, sessionID).evt
              /\ pdone' = Table(l, sessionID).done
              /\ sessionID' = Table(l, sessionID).sid
              /\ scanning']_vars

\* After a system init line that stored "s", an assistant line with the text
\* blocks "a" and "b" has given Text "ab".
C28_Witness ==
    /\ nlines = 2
    /\ scanning
    /\ sessionID = <<"s">>
    /\ pline.type = "assistant"
    /\ pline.message.kind = "obj"
    /\ pline.message.content = <<[type |-> "text", text |-> <<"a">>],
                                 [type |-> "text", text |-> <<"b">>]>>
    /\ pevt = [type |-> "Text", text |-> <<"a", "b">>]
    /\ ~pdone

\* ------------------------------------------- the markdown escape transform
\* Texts are sequences of characters, each a string; "\n" separates lines.
\* The backtick, which a string of the model cannot hold, is written BT.
BS == "\\"
BT == "backtick"
NL == "\n"
Fence == <<BT, BT, BT>>

\* A set of special characters without the full stop.
noDotSpecial(r) ==
    r \in {BS, "_", "*", "[", "]", "(", ")", "~", BT, ">", "#", "+", "-", "=", "|",
           "{", "}", "!"}

\* isV2Special
isV2Special(r) ==
    r \in {BS, "_", "*", "[", "]", "(", ")", "~", BT, ">", "#", "+", "-", "=", "|",
           "{", "}", ".", "!"}

\* strings.Split(text, "\n")
RECURSIVE SplitFrom(_, _, _)
SplitFrom(text, cur, acc) ==
    IF text = <<>> THEN Append(acc, cur)
    ELSE IF Head(text) = NL THEN SplitFrom(Tail(text), <<>>, Append(acc, cur))
    ELSE SplitFrom(Tail(text), Append(cur, Head(text)), acc)

Split(text) == SplitFrom(text, <<>>, <<>>)

\* strings.Join(out, "\n")
RECURSIVE JoinNL(_)
JoinNL(ls) ==
    IF ls = <<>> THEN <<>>
    ELSE IF Len(ls) = 1 THEN ls[1]
    ELSE ls[1] \o <<NL>> \o JoinNL(Tail(ls))

\* strings.HasPrefix
HasPrefix(s, p) == Len(s) >= Len(p) /\ SubSeq(s, 1, Len(p)) = p

\* strings.ReplaceAll(s, c, r) for a one-character c
RECURSIVE ReplaceAll(_, _, _)
ReplaceAll(s, c, r) ==
    IF s = <<>> THEN <<>>
    ELSE (IF Head(s) = c THEN r ELSE <<Head(s)>>) \o ReplaceAll(Tail(s), c, r)

\* strings.Index(s, p): the offset of the first p in s, -1 when there is none
RECURSIVE IndexFrom(_, _, _)
IndexFrom(s, p, k) ==
    IF Len(s) < Len(p) THEN -1
    ELSE IF SubSeq(s, 1, Len(p)) = p THEN k
    ELSE IndexFrom(Tail(s), p, k + 1)

Index(s, p) == IndexFrom(s, p, 0)

\* the loop over the inner runes of a bold span, and over a plain rune
RECURSIVE escapeRunes(_)
escapeRunes(s) ==
    IF s = <<>> THEN <<>>
    ELSE (IF isV2Special(Head(s)) THEN <<BS, Head(s)>> ELSE <<Head(s)>>)
         \o escapeRunes(Tail(s))

\* A fenced line that is passed through as it is.
keepFenced(line) == line

\* The two ReplaceAll calls on a line inside a fence
escapeFenced(line) == ReplaceAll(ReplaceAll(line, BS, <<BS, BS>>), BT, <<BS, BT>>)

\* escapeV2Line: the loop from byte offset i (0-based) with out written so far
RECURSIVE escapeV2From(_, _, _)
escapeV2From(line, i, out) ==
    IF i >= Len(line) THEN out
    ELSE IF line[i + 1] = BT
    THEN LET j == Index(SubSeq(line, i + 2, Len(line)), <<BT>>)
         IN  IF j >= 0
             THEN LET jj == j + i + 1
                      content == ReplaceAll(SubSeq(line, i + 2, jj), BS, <<BS, BS>>)
                  IN  escapeV2From(line, jj + 1, out \o <<BT>> \o content \o <<BT>>)
             ELSE escapeV2From(line, i + 1, out \o <<BS, BT>>)
    ELSE IF i + 1 < Len(line) /\ line[i + 1] = "*" /\ line[i + 2] = "*"
    THEN LET j == Index(SubSeq(line, i + 3, Len(line)), <<"*", "*">>)
         IN  IF j >= 0
             THEN LET jj == j + i + 2
                  IN  escapeV2From(line, jj + 2,
                                   out \o <<"*">> \o escapeRunes(SubSeq(line, i + 3, jj))
                                       \o <<"*">>)
             ELSE escapeV2From(line, i + 2, out \o <<BS, "*", BS, "*">>)
    ELSE escapeV2From(line, i + 1, out \o escapeRunes(<<line[i + 1]>>))

escapeV2Line(line) == escapeV2From(line, 0, <<>>)

\* formatV2: the loop over the lines with inFence, then the closing fence
RECURSIVE formatLines(_, _, _)
formatLines(lines, inFence, out) ==
    IF lines = <<>> THEN (IF inFence THEN Append(out, Fence) ELSE out)
    ELSE LET line == Head(lines)
         IN  IF HasPrefix(line, Fence)
             THEN formatLines(Tail(lines), ~inFence, Append(out, line))
             ELSE IF inFence
             THEN formatLines(Tail(lines), inFence, Append(out, escapeFenced(line)))
             ELSE formatLines(Tail(lines), inFence, Append(out, escapeV2Line(line)))

formatV2(text) == JoinNL(formatLines(Split(text), FALSE, <<>>))

\* The inputs: every line of up to MaxLineLen characters, and every text of up
\* to MaxTextLines lines taken from a few lines with and without a fence.
MaxLineLen == 5
MaxTextLines == 3
LineChars == {"a", ".", BT, "*", BS}
OneLines == UNION {[1..n -> LineChars] : n \in 0..MaxLineLen}
FenceLines == {<<>>, <<"a">>, <<BT>>, <<BS>>, <<".">>, Fence, Fence \o <<"a">>}
ManyLines == {JoinNL(ls) : ls \in UNION {[1..n -> FenceLines] : n \in 2..MaxTextLines}}

FmtInit ==
    /\ InitBase
    /\ timers = FALSE
    /\ timeout = 0
    /\ WorkIdle
    /\ ParseIdle
    /\ AsmIdle
    /\ fmtIn \in OneLines \cup ManyLines
    /\ fmtDone = FALSE
    /\ fmtOut = <<>>

FormatCall ==
    /\ ~fmtDone
    /\ fmtDone' = TRUE
    /\ fmtOut' = formatV2(fmtIn)
    /\ UNCHANGED <<fmtIn, wsVars, parseVars, asmVars>>
    /\ OldVarsStay

FmtNext == FormatCall

FmtSpec == FmtInit /\ [][FmtNext]_vars

\* ------------------------------------------------------------ C34
IsFence(line) == HasPrefix(line, Fence)

\* Fence delimiter lines among the first n lines.
FencesIn(ls, n) == Cardinality({j \in 1..n : IsFence(ls[j])})

\* Each backslash and each backtick with one backslash put before it.
RECURSIVE Gain(_)
Gain(s) ==
    IF s = <<>> THEN <<>>
    ELSE (IF Head(s) \in {BS, BT} THEN <<BS, Head(s)>> ELSE <<Head(s)>>) \o Gain(Tail(s))

\* C34: formatV2 emits the fence delimiter lines as they are and every line
\* between an opening and a closing delimiter with one backslash put before
\* each backslash and backtick; it adds one closing fence line, and nothing
\* else, exactly when the input ends inside a fence.
C34_FenceRoundTrip ==
    fmtDone =>
        LET L == Split(fmtIn)
            O == Split(fmtOut)
            open == FencesIn(L, Len(L)) % 2 = 1
        IN  /\ Len(O) = Len(L) + (IF open THEN 1 ELSE 0)
            /\ open => O[Len(O)] = Fence
            /\ \A i \in 1..Len(L) :
                  /\ IsFence(L[i]) => O[i] = L[i]
                  /\ (~IsFence(L[i]) /\ FencesIn(L, i) % 2 = 1) => O[i] = Gain(L[i])

\* A closed fence around a line that is one backslash.
C34_Witness ==
    /\ fmtDone
    /\ fmtIn = Fence \o <<"a", NL, BS, NL>> \o Fence
    /\ fmtOut = Fence \o <<"a", NL, BS, BS, NL>> \o Fence

\* ------------------------------------------------------------ C35
\* The special characters of the target dialect.
SpecialChars ==
    {BS, "_", "*", "[", "]", "(", ")", "~", BT, ">", "#", "+", "-", "=", "|", "{", "}",
     ".", "!"}

\* Every special character with one backslash before it, the others as they are.
RECURSIVE Plain(_)
Plain(s) ==
    IF s = <<>> THEN <<>>
    ELSE (IF Head(s) \in SpecialChars THEN <<BS, Head(s)>> ELSE <<Head(s)>>)
         \o Plain(Tail(s))

\* Every backslash doubled.
RECURSIVE Doubled(_)
Doubled(s) ==
    IF s = <<>> THEN <<>>
    ELSE (IF Head(s) = BS THEN <<BS, BS>> ELSE <<Head(s)>>) \o Doubled(Tail(s))

HasTick(s) == \E i \in 1..Len(s) : s[i] = BT
HasPair(s) == \E i \in 1..Len(s) - 1 : s[i] = "*" /\ s[i + 1] = "*"

\* What a line outside a fence becomes, by where its first backtick or first
\* double asterisk stands: pre is the text before it, rest the text after it.
LineRule(line, out) ==
    /\ (~HasTick(line) /\ ~HasPair(line)) => out = Plain(line)
    /\ \A n \in 0..Len(line) - 1 :
          LET pre == SubSeq(line, 1, n)
          IN  /\ (line[n + 1] = BT /\ ~HasTick(pre) /\ ~HasPair(pre)) =>
                    LET rest == SubSeq(line, n + 2, Len(line))
                    IN  /\ ~HasTick(rest) =>
                               out = Plain(pre) \o <<BS, BT>> \o escapeV2Line(rest)
                        /\ \A k \in 1..Len(rest) :
                              (rest[k] = BT /\ ~HasTick(SubSeq(rest, 1, k - 1))) =>
                                  out = Plain(pre) \o <<BT>>
                                            \o Doubled(SubSeq(rest, 1, k - 1)) \o <<BT>>
                                            \o escapeV2Line(SubSeq(rest, k + 1, Len(rest)))
              /\ (/\ n + 2 <= Len(line)
                  /\ line[n + 1] = "*" /\ line[n + 2] = "*"
                  /\ ~HasTick(pre) /\ ~HasPair(pre \o <<"*">>)) =>
                    LET rest == SubSeq(line, n + 3, Len(line))
                    IN  /\ ~HasPair(rest) =>
                               out = Plain(pre) \o <<BS, "*", BS, "*">> \o escapeV2Line(rest)
                        /\ \A k \in 1..Len(rest) - 1 :
                              (/\ rest[k] = "*" /\ rest[k + 1] = "*"
                               /\ ~HasPair(SubSeq(rest, 1, k))) =>
                                  out = Plain(pre) \o <<"*">>
                                            \o Plain(SubSeq(rest, 1, k - 1)) \o <<"*">>
                                            \o escapeV2Line(SubSeq(rest, k + 2, Len(rest)))

maxMessageLen == 5
MaxFrags == 3
MaxTicks == 2
MaxFails == 1

Ellipsis == <<".", ".", ".">>
ErrorText == <<"e", "r", "r">>
ParseModeMarkdown == "MarkdownV2"

\* The Text fragments: short ones with and without a special character, and
\* one that is longer than the ceiling by itself.
Frags == {<<"a">>, <<".">>, <<"a", "a">>, <<"a", ".">>, [i \in 1..maxMessageLen + 1 |-> "a"]}

RECURSIVE Flat(_)
Flat(ss) == IF ss = <<>> THEN <<>> ELSE Head(ss) \o Flat(Tail(ss))

TextEvents(fs) == [i \in 1..Len(fs) |-> [type |-> "Text", text |-> fs[i]]]

\* The streams: Text fragments, then the channel is closed, or a Done (with no
\* text or with the whole reply) or an Error comes, or a Done and one more Text.
Streams ==
    UNION {{TextEvents(fs),
            Append(TextEvents(fs), [type |-> "Done", text |-> <<>>]),
            Append(TextEvents(fs), [type |-> "Done", text |-> Flat(fs)]),
            Append(TextEvents(fs), [type |-> "Error", text |-> <<>>]),
            TextEvents(fs) \o <<[type |-> "Done", text |-> <<>>],
                                [type |-> "Text", text |-> <<"a">>]>>} :
           fs \in UNION {[1..n -> Frags] : n \in 0..MaxFrags}}

\* A truncation that cuts nothing.
wholeText(s, n) == s

\* truncateRunes
truncateRunes(s, n) == IF Len(s) > n THEN SubSeq(s, 1, n) ELSE s

\* A comparison with lastEdit that never finds the text already sent.
neverSame(sendText, le) == FALSE

\* sendText == lastEdit
sameAsLast(sendText, le) == sendText = le

\* A parse mode that is never set.
plainMode(final) == ""

\* parseMode of a flush
parseModeOf(final) == IF final THEN ParseModeMarkdown ELSE ""

\* lastEdit after an edit: assigned whether the edit failed or not
afterEdit(le, sendText, ok) == sendText

\* flush(final) on buffer raw with lastEdit le, msgID mid and the platform's
\* messages ps, when the platform call, if one is made, succeeds (ok) or fails
flush(final, raw, le, mid, ps, ok) ==
    LET quiet == [lastEdit |-> le, msgID |-> mid, posts |-> ps, made |-> FALSE, call |-> NoCall]
        sendText == IF final THEN formatV2(raw) ELSE raw
        text == IF Len(sendText) > maxMessageLen
                THEN truncateRunes(sendText, maxMessageLen - 3) \o Ellipsis
                ELSE sendText
        mode == parseModeOf(final)
    IN  IF raw = <<>> THEN quiet
        ELSE IF sameAsLast(sendText, le) THEN quiet
        ELSE IF mid = 0
        THEN IF ok
             THEN [lastEdit |-> text, msgID |-> Len(ps) + 1,
                   posts |-> Append(ps, [text |-> text, mode |-> mode]), made |-> TRUE,
                   call |-> [kind |-> "post", id |-> Len(ps) + 1, raw |-> raw, text |-> text,
                             mode |-> mode, final |-> final, ok |-> TRUE]]
             ELSE [lastEdit |-> le, msgID |-> mid, posts |-> ps, made |-> TRUE,
                   call |-> [kind |-> "post", id |-> 0, raw |-> raw, text |-> text,
                             mode |-> mode, final |-> final, ok |-> FALSE]]
        ELSE [lastEdit |-> afterEdit(le, text, ok), msgID |-> mid,
              posts |-> IF ok THEN [ps EXCEPT ![mid] = [text |-> text, mode |-> mode]] ELSE ps,
              made |-> TRUE,
              call |-> [kind |-> "edit", id |-> mid, raw |-> raw, text |-> text,
                        mode |-> mode, final |-> final, ok |-> ok]]

\* The platform's part of a step that ran flush with result f.
Platform(f, ok) ==
    /\ ok \/ nfail < MaxFails
    /\ posts' = f.posts
    /\ call' = IF f.made THEN f.call ELSE call
    /\ nplat' = IF f.made THEN nplat + 1 ELSE nplat
    /\ nfail' = IF f.made /\ ~ok THEN nfail + 1 ELSE nfail

AsmOthersStay ==
    /\ UNCHANGED <<wsVars, parseVars, fmtVars>>
    /\ OldVarsStay

AsmInit ==
    /\ InitBase
    /\ timers = FALSE
    /\ timeout = 0
    /\ WorkIdle
    /\ ParseIdle
    /\ FmtIdle
    /\ events \in Streams
    /\ apc = "loop"
    /\ AsmStart

NextEvent == events[epos + 1]

\* The size test of the Text case.
Overflows(b, frag) == Len(b) + Len(frag) > maxMessageLen

\* A split that keeps the message id.
keepID(f) == f.msgID

\* msgID = 0 of the split
resetID(f) == 0

\* case evt of type EventText
onText(ok) ==
    /\ apc = "loop"
    /\ epos < Len(events)
    /\ NextEvent.type = "Text"
    /\ epos' = epos + 1
    /\ IF Overflows(buf, NextEvent.text)
       THEN LET f == flush(TRUE, buf, lastEdit, msgID, posts, ok)
            IN  /\ Platform(f, ok)
                /\ buf' = NextEvent.text
                /\ lastEdit' = <<>>
                /\ msgID' = resetID(f)
                /\ closedIDs' = closedIDs \cup ({f.msgID} \ {0})
       ELSE /\ ok
            /\ buf' = buf \o NextEvent.text
            /\ UNCHANGED <<lastEdit, msgID, posts, call, nplat, nfail, closedIDs>>
    /\ UNCHANGED <<events, apc, nticks>>
    /\ AsmOthersStay

\* A Done text that is added to the buffer.
appendDone(text, b) == b \o text

\* The buffer after the Done case's replacement
doneBuffer(text, b) == IF text # <<>> THEN text ELSE b

\* case evt of type EventDone
onDone(ok) ==
    /\ apc = "loop"
    /\ epos < Len(events)
    /\ NextEvent.type = "Done"
    /\ epos' = epos + 1
    /\ LET b == doneBuffer(NextEvent.text, buf)
           f == flush(TRUE, b, lastEdit, msgID, posts, ok)
       IN  /\ Platform(f, ok)
           /\ buf' = b
           /\ lastEdit' = f.lastEdit
           /\ msgID' = f.msgID
    /\ apc' = "returned"
    /\ UNCHANGED <<events, nticks, closedIDs>>
    /\ AsmOthersStay

\* case evt of type EventError
onError(ok) ==
    /\ apc = "loop"
    /\ epos < Len(events)
    /\ NextEvent.type = "Error"
    /\ epos' = epos + 1
    /\ LET b == IF Len(buf) = 0 THEN ErrorText ELSE buf
           f == flush(FALSE, b, lastEdit, msgID, posts, ok)
       IN  /\ Platform(f, ok)
           /\ buf' = b
           /\ lastEdit' = f.lastEdit
           /\ msgID' = f.msgID
    /\ apc' = "returned"
    /\ UNCHANGED <<events, nticks, closedIDs>>
    /\ AsmOthersStay

\* case evt, ok := <-events with !ok
onClosed(ok) ==
    /\ apc = "loop"
    /\ epos = Len(events)
    /\ LET f == flush(TRUE, buf, lastEdit, msgID, posts, ok)
       IN  /\ Platform(f, ok)
           /\ lastEdit' = f.lastEdit
           /\ msgID' = f.msgID
    /\ apc' = "returned"
    /\ UNCHANGED <<events, epos, buf, nticks, closedIDs>>
    /\ AsmOthersStay

\* case <-ticker.C
onTick(ok) ==
    /\ apc = "loop"
    /\ nticks < MaxTicks
    /\ nticks' = nticks + 1
    /\ LET f == flush(FALSE, buf, lastEdit, msgID, posts, ok)
       IN  /\ Platform(f, ok)
           /\ lastEdit' = f.lastEdit
           /\ msgID' = f.msgID
    /\ UNCHANGED <<events, epos, apc, buf, closedIDs>>
    /\ AsmOthersStay

\* case <-ctx.Done()
onCancel ==
    /\ apc = "loop"
    /\ apc' = "returned"
    /\ UNCHANGED <<events, epos, buf, lastEdit, msgID, posts, call, nplat, nfail, nticks,
                   closedIDs>>
    /\ AsmOthersStay

AsmNext ==
    \/ \E ok \in BOOLEAN : onText(ok)
    \/ \E ok \in BOOLEAN : onDone(ok)
    \/ \E ok \in BOOLEAN : onError(ok)
    \/ \E ok \in BOOLEAN : onClosed(ok)
    \/ \E ok \in BOOLEAN : onTick(ok)
    \/ onCancel

AsmSpec == AsmInit /\ [][AsmNext]_vars

\* ------------------------------------------------------------ C26
\* The stream is Text fragments ended by a Done.
TextsThenDone ==
    /\ events # <<>>
    /\ events[Len(events)].type = "Done"
    /\ \A i \in 1..Len(events) - 1 : events[i].type = "Text"

\* The reply of such a stream: the Done text, or the fragments when it is empty.
Reply ==
    IF events[Len(events)].text # <<>> THEN events[Len(events)].text
    ELSE Flat([i \in 1..Len(events) - 1 |-> events[i].text])

\* The texts of the platform's messages, in the order they were posted.
Posted == Flat([i \in 1..Len(posts) |-> posts[i].text])

\* C26: when the Done of a stream of Text fragments has been handled and no
\* platform call has failed, the messages on the platform, one after the
\* other, are the escaped reply, whole.
C26_FullReply ==
    (TextsThenDone /\ apc = "returned" /\ epos = Len(events) /\ nfail = 0)
        => Posted = formatV2(Reply)

\* ------------------------------------------------------------ C27
\* The text a flush renders from the buffer it was given.
Rendered(c) == IF c.final THEN formatV2(c.raw) ELSE c.raw

\* C27: every text passed to the platform is at most maxMessageLen runes
\* long; a rendered text longer than that was passed as its first
\* maxMessageLen - 3 runes followed by three full stops, any other as it is.
C27_Ceiling ==
    /\ call.kind # "none" =>
          /\ Len(call.text) <= maxMessageLen
          /\ call.text = IF Len(Rendered(call)) > maxMessageLen
                         THEN SubSeq(Rendered(call), 1, maxMessageLen - 3) \o Ellipsis
                         ELSE Rendered(call)
    /\ \A i \in 1..Len(posts) : Len(posts[i].text) <= maxMessageLen

\* A final edit whose escaped text was longer than the ceiling.
C27_Witness ==
    /\ call.kind = "edit" /\ call.final /\ call.ok
    /\ Len(call.raw) <= maxMessageLen
    /\ Len(formatV2(call.raw)) > maxMessageLen
    /\ Len(call.text) = maxMessageLen

\* ------------------------------------------------------------ C29
\* C29: a Text whose fragment would take the buffer over the ceiling makes a
\* final flush of the buffer as it is, then leaves the fragment alone in the
\* buffer with lastEdit and msgID reset; with msgID reset the next call is a
\* post, and no edit ever goes to a message that a split has closed out.
C29_Split ==
    [][/\ \A ok \in BOOLEAN :
             (onText(ok) /\ Overflows(buf, NextEvent.text)) =>
                 /\ buf' = NextEvent.text
                 /\ lastEdit' = <<>>
                 /\ msgID' = 0
                 /\ nplat' # nplat =>
                       /\ call'.final /\ call'.raw = buf
                       /\ call'.kind = IF msgID = 0 THEN "post" ELSE "edit"
       /\ nplat' # nplat =>
             /\ msgID = 0 => call'.kind = "post"
             /\ call'.kind = "edit" => call'.id \notin closedIDs
             /\ (call'.kind = "post" /\ call'.ok) => call'.id = Len(posts) + 1]_vars

\* A split has closed message 1 and the fragment has been posted as message 2.
C29_Witness ==
    /\ closedIDs = {1}
    /\ Len(posts) = 2
    /\ msgID = 2
    /\ call.kind = "post" /\ call.id = 2
    /\ call.raw = buf

\* ------------------------------------------------------------ C30
\* What a flush of buffer raw does to the platform.
FlushRule(final, raw) ==
    IF raw = <<>> \/ (IF final THEN formatV2(raw) ELSE raw) = lastEdit
    THEN nplat' = nplat /\ posts' = posts /\ call' = call
    ELSE /\ nplat' = nplat + 1
         /\ call'.kind = IF msgID = 0 THEN "post" ELSE "edit"
         /\ msgID # 0 => call'.id = msgID

\* C30: a flush makes no platform call when the buffer is empty or the
\* rendered text equals lastEdit; otherwise it makes one call, a post when
\* msgID is none and an edit of msgID otherwise.
C30_FlushCalls ==
    [][\A ok \in BOOLEAN :
          /\ onTick(ok) => FlushRule(FALSE, buf)
          /\ onClosed(ok) => FlushRule(TRUE, buf)
          /\ onDone(ok) => FlushRule(TRUE, buf')
          /\ onError(ok) => FlushRule(FALSE, buf')
          /\ (onText(ok) /\ Overflows(buf, NextEvent.text)) => FlushRule(TRUE, buf)]_vars

\* Two ticks on one buffer have made one call.
C30_Witness ==
    /\ nticks = 2
    /\ nplat = 1
    /\ epos = 1
    /\ buf # <<>>
    /\ lastEdit = buf
    /\ apc = "loop"

\* ------------------------------------------------------------ C31
\* C31: a tick whose platform call failed leaves lastEdit as it was.
C31_LastSentOnSuccess ==
    [][\A ok \in BOOLEAN : (onTick(ok) /\ nfail' > nfail) => lastEdit' = lastEdit]_vars

\* ------------------------------------------------------------ C32
\* The step made a platform call with this parse mode and this text.
Carries(mode, text) ==
    nplat' # nplat =>
        /\ call'.mode = mode
        /\ call'.text = IF Len(text) > maxMessageLen
                        THEN SubSeq(text, 1, maxMessageLen - 3) \o Ellipsis
                        ELSE text

\* C32: the calls of the final flushes (Done, channel closed, size split)
\* carry the markdown-v2 parse mode and the escaped buffer, the calls of the
\* other flushes (tick, Error) no parse mode and the buffer as it is.
C32_ParseMode ==
    [][\A ok \in BOOLEAN :
          /\ onDone(ok) => Carries(ParseModeMarkdown, formatV2(buf'))
          /\ onClosed(ok) => Carries(ParseModeMarkdown, formatV2(buf))
          /\ (onText(ok) /\ Overflows(buf, NextEvent.text))
                 => Carries(ParseModeMarkdown, formatV2(buf))
          /\ onTick(ok) => Carries("", buf)
          /\ onError(ok) => Carries("", buf')]_vars

\* A Done has edited the message, posted plain by a tick, to escaped text.
C32_Witness ==
    /\ apc = "returned"
    /\ epos >= 1
    /\ events[epos].type = "Done"
    /\ call.kind = "edit" /\ call.ok
    /\ call.mode = ParseModeMarkdown
    /\ call.text # call.raw
    /\ posts[1] = [text |-> call.text, mode |-> ParseModeMarkdown]

\* ------------------------------------------------------------ C33
\* C33: a Done puts its text in place of the buffer when it has one and keeps
\* the buffer otherwise, makes at most one call, a final one, and returns;
\* once returned, no event is read and no platform call is made.
C33_Done ==
    [][/\ \A ok \in BOOLEAN :
             onDone(ok) =>
                 /\ buf' = IF NextEvent.text # <<>> THEN NextEvent.text ELSE buf
                 /\ apc' = "returned"
                 /\ nplat' \in {nplat, nplat + 1}
                 /\ nplat' # nplat => (call'.final /\ call'.raw = buf')
       /\ apc = "returned" => (epos' = epos /\ nplat' = nplat /\ posts' = posts)]_vars

\* A Done with a text has replaced a buffer of fragments and returned, with
\* an event left unread.
C33_Witness ==
    /\ apc = "returned"
    /\ epos >= 2
    /\ events[epos].type = "Done"
    /\ events[epos].text # <<>>
    /\ buf = events[epos].text
    /\ call.final /\ call.raw = buf

\* ------------------------------------------------------------ C40
\* C40: no call edits a message with the text and parse mode that the call
\* before it, on the same message, already carried.
C40_NoRepeatedEdit ==
    [][(/\ nplat' = nplat + 1
        /\ call'.kind = "edit"
        /\ call.kind # "none" /\ call.ok
        /\ call.id = call'.id)
          => ~(call'.text = call.text /\ call'.mode = call.mode)]_vars

\* ------------------------------------------------------------ C36
\* LockSpec: Spec with every manager thread that can step stepping eventually.
LockFair == \A t \in Threads : WF_vars(ThreadStep(t))

LockSpec == Init /\ [][Next]_vars /\ LockFair

\* A step thread t takes under m.mu: getOrCreate, remove (of the recovery and
\* of Reset), Shutdown.
MuStep(t) ==
    \/ getOrCreate(t)
    \/ acquireRemove(t)
    \/ \E c \in Chats : Reset(t, c)
    \/ Shutdown(t)

HoldsSessionLock(t) == \E e \in Execs : sessMu[e] = t

\* The factory has handed out every executor of the run and thread t needs
\* one more.
OutOfExecutors(t) ==
    pc[t] = "getOrCreate" /\ sessions[chat[t]] = None /\ nexecs = MaxSess

\* C36: a thread that takes the map mutex holds no session lock and is not
\* inside executor.Send; a thread that holds a session lock waits for no
\* lock; and every call a thread has begun returns, unless the process has
\* panicked inside an executor call (or the run has no executor left).
C36_LockDiscipline ==
    /\ [][\A t \in Threads :
             MuStep(t) =>
                 /\ ~HoldsSessionLock(t)
                 /\ \A e \in Execs : sessMu'[e] # t
                 /\ pc[t] \notin InSend \cup {"xsCheck"}]_vars
    /\ [](\A t \in Threads :
             HoldsSessionLock(t) => pc[t] \in InSend \cup {"touch", "xsCheck", "ret"})
    /\ \A t \in Threads :
          (pc[t] # "idle") ~> (pc[t] = "idle" \/ ~Running \/ OutOfExecutors(t))

\* Thread a is inside executor.Send with the session lock, thread b waits for
\* the same lock.
C36_Witness ==
    /\ pc["a"] \in InSend
    /\ sessMu[sess["a"]] = "a"
    /\ pc["b"] = "lock"
    /\ sess["b"] = sess["a"]

\* ------------------------------------------------------------ C37
\* C37: no response channel is closed twice and no event is sent on a closed
\* channel: the process never panics in Executor.Send, dispatch or closeResp.
C37_NoChannelPanic == panicked = "no"

\* ------------------------------------------------------------ C38
\* The session thread t works on has been taken out of the map and stopped.
RemovedAndStopped(t) == sessions[chat[t]] # sess[t] /\ stopCalls[sess[t]] > 0

\* C38: with Resets, expiries and recoveries among the Sends, at most one
\* call per chat is inside executor.Send, and none is inside executor.Send on
\* an executor whose session has been removed from the map and stopped.
C38_SerializedWithRemovals ==
    /\ \A c \in Chats : Cardinality(InFlight(c)) <= 1
    /\ \A t \in Threads : pc[t] \in InSend => ~RemovedAndStopped(t)

\* ------------------------------------------------------------ C39
\* C39: the callback that the timer of a session started removes no session
\* but that one: when it runs and the map holds a session for the chat, that
\* session is the one whose timer started it.
C39_OwnTimerOnly ==
    [][\A c \in Chats, e \in Execs :
          (expireRun(c) /\ cbOf'[e] < cbOf[e] /\ sessions[c] # None) => sessions[c] = e]_vars

====
